---- MODULE Spec2Model ----
(***************************************************************************)
(* Model of the in-memory record store of the fitness tracker              *)
(* (src/db/database.py) and of the CRUD layer that mutates it              *)
(* (src/db/crud.py), of the routes in front of it (src/routers) and of    *)
(* the standalone endpoints of src/main.py.  Every CRUD function is one   *)
(* action that runs to completion, except under SpecRaces, where          *)
(* register_user and create_workout run statement by statement on         *)
(* worker threads (`requests`).  `db` is the list store of main.py.       *)
(*                                                                         *)
(* Representation                                                          *)
(*   - a Python dict is a function whose DOMAIN is the set of keys; keys   *)
(*     are inserted in increasing id order, so ascending key order is the  *)
(*     dict's iteration order;                                             *)
(*   - Python None is the integer None (-1) for optional numbers and the   *)
(*     string NoneStr for optional strings;                                *)
(*   - datetime.now() / date.today() are the day counter `today`;          *)
(*   - float fields hold integers (weights in lb, body fat in tenths of    *)
(*     a percent);                                                         *)
(*   - `last` records the most recent call: its name, its input, its       *)
(*     result; `history` records every id ever stored per collection,      *)
(*     every exercise deletion, the latest successful                      *)
(*     add_workout_to_plan with the workouts list the plan had before it,  *)
(*     and for every password key the user whose registration (or seed     *)
(*     entry) stored the hash under it.                                    *)
(***************************************************************************)
EXTENDS Integers, Sequences, FiniteSets, TLC

VARIABLES
    users_db,                 \* id -> User
    users_passwords,          \* username -> password hash
    user_stats_db,            \* user id -> UserStats
    exercises_db,             \* id -> Exercise
    exercise_sets_db,         \* id -> ExerciseSet
    workouts_db,              \* id -> Workout
    workout_exercise_sets,    \* workout id -> sequence of exercise-set ids
    workout_plans_db,         \* id -> WorkoutPlan
    progress_logs_db,         \* id -> ProgressLog
    user_id_counter,
    workout_id_counter,
    exercise_id_counter,
    exercise_set_id_counter,
    workout_plan_id_counter,
    progress_log_id_counter,
    today,                    \* the current day (date.today())
    last,                     \* the most recent call and its result
    history,                  \* ids ever stored per collection; deletions
    requests,                 \* request threads in flight: position and locals
    db                        \* the list storage of the standalone main.py

counters == <<user_id_counter, workout_id_counter, exercise_id_counter,
              exercise_set_id_counter, workout_plan_id_counter,
              progress_log_id_counter>>

store == <<users_db, users_passwords, user_stats_db, exercises_db,
           exercise_sets_db, workouts_db, workout_exercise_sets,
           workout_plans_db, progress_logs_db, counters>>

vars == <<store, today, last, history, requests, db>>

-----------------------------------------------------------------------------
(* Bounds of the model *)

MaxRequests == 2        \* requests handled at the same time
MaxUserId == 3          \* largest user id create_user may assign
MaxWorkoutId == 4       \* largest workout id create_workout may assign
MaxExerciseId == 6      \* largest exercise id create_exercise may assign
MaxExerciseSetId == 6   \* largest exercise-set id that may be assigned
MaxPlanId == 3          \* largest plan id create_workout_plan may assign
MaxLogId == 4           \* largest log id create_progress_log may assign
MaxDay == 2             \* days the clock may advance
MaxSets == 2            \* exercise sets per workout input
MaxListLen == 2         \* records a list of the standalone main.py may hold
MaxCreates == 2         \* records created in one run of the id-assignment check

None == 0 - 1
NoneStr == "<None>"

-----------------------------------------------------------------------------
(* Helpers on dicts *)

\* d[k] = v
Put(d, k, v) == [x \in (DOMAIN d) \cup {k} |-> IF x = k THEN v ELSE d[x]]

\* a delete that removes nothing
DelNothing(d, k) == d

\* if k in d: del d[k]
Del(d, k) == [x \in (DOMAIN d) \ {k} |-> d[x]]

\* a cascade that removes nothing
DelNone(d, ks) == d

\* for k in ks: if k in d: del d[k]
DelAll(d, ks) == [x \in (DOMAIN d) \ ks |-> d[x]]

Range(s) == {s[i] : i \in DOMAIN s}

\* the record of one call: operation, success, the id it addressed or assigned,
\* its input and the value it returned
Call(op, ok, id, arg, ret) ==
    [op |-> op, ok |-> ok, id |-> id, arg |-> arg, ret |-> ret]

\* pwd_context.hash: a hash that verifies exactly the password it was made of
get_password_hash(password) == <<"bcrypt", password>>

\* a request slot no thread has picked up yet
NoRequest ==
    [pc |-> "idle", op |-> "none", arg |-> [none |-> TRUE], id |-> None,
     ok |-> FALSE, raced |-> {}]

Requests == 1..MaxRequests

\* db = {"users": [], "workouts": [], "exercises": [], "workout_plans": [],
\*       "progress_logs": []}
EmptyDb ==
    [users |-> <<>>, workouts |-> <<>>, exercises |-> <<>>,
     workout_plans |-> <<>>, progress_logs |-> <<>>]

-----------------------------------------------------------------------------
(* Seed data *)

SeedUsers ==
    (1 :> [email |-> "john@example.com", username |-> "johndoe",
           full_name |-> "John Doe", is_active |-> TRUE, created_at |-> 0]) @@
    (2 :> [email |-> "jane@example.com", username |-> "janedoe",
           full_name |-> "Jane Smith", is_active |-> TRUE, created_at |-> 0])

SeedPasswords ==
    ("johndoe" :> get_password_hash("secret")) @@
    ("janedoe" :> get_password_hash("secret"))

SeedExercises ==
    (1 :> [name |-> "Barbell Bench Press",
           muscle_groups |-> {"chest", "shoulders", "arms"}, created_by |-> 1]) @@
    (2 :> [name |-> "Squat", muscle_groups |-> {"legs"}, created_by |-> 1]) @@
    (3 :> [name |-> "Deadlift", muscle_groups |-> {"back", "legs"},
           created_by |-> 1]) @@
    (4 :> [name |-> "Running", muscle_groups |-> {"legs", "core"},
           created_by |-> 2]) @@
    (5 :> [name |-> "Plank", muscle_groups |-> {"core"}, created_by |-> 2])

SeedExerciseSets ==
    (1 :> [exercise_id |-> 1, reps |-> 10]) @@
    (2 :> [exercise_id |-> 2, reps |-> 8]) @@
    (3 :> [exercise_id |-> 4, reps |-> None]) @@
    (4 :> [exercise_id |-> 5, reps |-> None])

SeedWorkouts ==
    (1 :> [title |-> "Morning Run", category |-> "cardio",
           duration_minutes |-> 30, created_at |-> 0, user_id |-> 2]) @@
    (2 :> [title |-> "Chest Day", category |-> "strength",
           duration_minutes |-> 45, created_at |-> 0, user_id |-> 1]) @@
    (3 :> [title |-> "Yoga Session", category |-> "mobility",
           duration_minutes |-> 60, created_at |-> 0, user_id |-> 2])

SeedWorkoutExerciseSets == (1 :> <<3>>) @@ (2 :> <<1>>) @@ (3 :> <<4>>)

SeedWorkoutPlans ==
    (1 :> [name |-> "Beginner Strength Program", duration_weeks |-> 8,
           created_at |-> 0, created_by |-> 1, workouts |-> <<2, 3>>]) @@
    (2 :> [name |-> "5K Training Plan", duration_weeks |-> 6,
           created_at |-> 0, created_by |-> 2, workouts |-> <<1>>])

SeedUserStats ==
    (1 :> [weight |-> 180, height |-> 72, body_fat_percentage |-> 150,
           total_workouts |-> 15, total_workout_minutes |-> 750,
           streak_days |-> 3, last_workout_date |-> 0, last_updated |-> 0]) @@
    (2 :> [weight |-> 140, height |-> 65, body_fat_percentage |-> 220,
           total_workouts |-> 22, total_workout_minutes |-> 1200,
           streak_days |-> 5, last_workout_date |-> 0, last_updated |-> 0])

SeedProgressLogs ==
    (1 :> [user_id |-> 1, log_date |-> 0, weight |-> 180,
           body_fat_percentage |-> 150, created_at |-> 0]) @@
    (2 :> [user_id |-> 2, log_date |-> 0, weight |-> 140,
           body_fat_percentage |-> 218, created_at |-> 0])

\* len(db) + 1
CounterStart(collection) == Cardinality(DOMAIN collection) + 1

Init ==
    /\ users_db = SeedUsers
    /\ users_passwords = SeedPasswords
    /\ user_stats_db = SeedUserStats
    /\ exercises_db = SeedExercises
    /\ exercise_sets_db = SeedExerciseSets
    /\ workouts_db = SeedWorkouts
    /\ workout_exercise_sets = SeedWorkoutExerciseSets
    /\ workout_plans_db = SeedWorkoutPlans
    /\ progress_logs_db = SeedProgressLogs
    /\ user_id_counter = CounterStart(SeedUsers)
    /\ workout_id_counter = CounterStart(SeedWorkouts)
    /\ exercise_id_counter = CounterStart(SeedExercises)
    /\ exercise_set_id_counter = CounterStart(SeedExerciseSets)
    /\ workout_plan_id_counter = CounterStart(SeedWorkoutPlans)
    /\ progress_log_id_counter = CounterStart(SeedProgressLogs)
    /\ today = 0
    /\ last = Call("init", TRUE, None, None, None)
    /\ history = [users |-> DOMAIN SeedUsers,
                 workouts |-> DOMAIN SeedWorkouts,
                 exercises |-> DOMAIN SeedExercises,
                 exercise_sets |-> DOMAIN SeedExerciseSets,
                 workout_plans |-> DOMAIN SeedWorkoutPlans,
                 progress_logs |-> DOMAIN SeedProgressLogs,
                 exercise_deletions |-> {},
                 plan_before |-> [plan_id |-> None, workout_id |-> None,
                                  workouts |-> <<>>],
                 password_owner |-> ("johndoe" :> 1) @@ ("janedoe" :> 2)]
    /\ requests = [r \in Requests |-> NoRequest]
    /\ db = EmptyDb

-----------------------------------------------------------------------------
(* The clock: a day passes between two calls *)

AdvanceDay ==
    /\ today < MaxDay
    /\ today' = today + 1
    /\ last' = Call("advanceDay", TRUE, None, None, None)
    /\ UNCHANGED <<store, history, requests, db>>

-----------------------------------------------------------------------------
(* User operations *)

get_user_by_username(username) ==
    {i \in DOMAIN users_db : users_db[i].username = username}

get_user_by_email(email) ==
    {i \in DOMAIN users_db : users_db[i].email = email}

\* a duplicate check that forgets the email
UserExistsByUsernameOnly(user) == get_user_by_username(user.username) # {}

\* the duplicate check that opens create_user
UserExists(user) ==
    \/ get_user_by_username(user.username) # {}
    \/ get_user_by_email(user.email) # {}

\* a counter that is read but never advanced
CounterKept(c) == c

\* user_id_counter += 1 (and the same statement for every other counter)
NextCounter(c) == c + 1

\* a stats record that starts with one workout counted
UserStatsCountingOne ==
    [weight |-> None, height |-> None, body_fat_percentage |-> None,
     total_workouts |-> 1, total_workout_minutes |-> 0, streak_days |-> 1,
     last_workout_date |-> today, last_updated |-> today]

\* UserStats(user_id=..., last_updated=now): every other field at its default
FreshUserStats ==
    [weight |-> None, height |-> None, body_fat_percentage |-> None,
     total_workouts |-> 0, total_workout_minutes |-> 0, streak_days |-> 0,
     last_workout_date |-> None, last_updated |-> today]

\* a registration that takes its id before it checks for duplicates
create_user_counting_first(user) ==
    IF UserExists(user)
    THEN /\ user_id_counter <= MaxUserId
         /\ user_id_counter' = NextCounter(user_id_counter)
         /\ last' = Call("createUser", FALSE, None, user, None)
         /\ UNCHANGED <<users_db, users_passwords, user_stats_db, exercises_db,
                        exercise_sets_db, workouts_db, workout_exercise_sets,
                        workout_plans_db, progress_logs_db, workout_id_counter,
                        exercise_id_counter, exercise_set_id_counter,
                        workout_plan_id_counter, progress_log_id_counter,
                        today, history, requests, db>>
    ELSE /\ user_id_counter <= MaxUserId
         /\ users_db' = Put(users_db, user_id_counter,
                            [email |-> user.email, username |-> user.username,
                             full_name |-> user.full_name, is_active |-> TRUE,
                             created_at |-> today])
         /\ users_passwords' = Put(users_passwords, user.username,
                                   get_password_hash(user.password))
         /\ user_stats_db' = Put(user_stats_db, user_id_counter, FreshUserStats)
         /\ user_id_counter' = NextCounter(user_id_counter)
         /\ last' = Call("createUser", TRUE, user_id_counter, user, None)
         /\ UNCHANGED <<requests, db>>
         /\ history' = [history EXCEPT
                            !.users = @ \cup {user_id_counter},
                            !.password_owner =
                                Put(@, user.username, user_id_counter)]
         /\ UNCHANGED <<exercises_db, exercise_sets_db, workouts_db,
                        workout_exercise_sets, workout_plans_db, progress_logs_db,
                        workout_id_counter, exercise_id_counter,
                        exercise_set_id_counter, workout_plan_id_counter,
                        progress_log_id_counter, today>>

create_user(user) ==
    IF UserExists(user)
    THEN /\ last' = Call("createUser", FALSE, None, user, None)
         /\ UNCHANGED <<store, today, history, requests, db>>
    ELSE /\ user_id_counter <= MaxUserId
         /\ users_db' = Put(users_db, user_id_counter,
                            [email |-> user.email, username |-> user.username,
                             full_name |-> user.full_name, is_active |-> TRUE,
                             created_at |-> today])
         /\ users_passwords' = Put(users_passwords, user.username,
                                   get_password_hash(user.password))
         /\ user_stats_db' = Put(user_stats_db, user_id_counter, FreshUserStats)
         /\ user_id_counter' = NextCounter(user_id_counter)
         /\ last' = Call("createUser", TRUE, user_id_counter, user, None)
         /\ UNCHANGED <<requests, db>>
         /\ history' = [history EXCEPT
                            !.users = @ \cup {user_id_counter},
                            !.password_owner =
                                Put(@, user.username, user_id_counter)]
         /\ UNCHANGED <<exercises_db, exercise_sets_db, workouts_db,
                        workout_exercise_sets, workout_plans_db, progress_logs_db,
                        workout_id_counter, exercise_id_counter,
                        exercise_set_id_counter, workout_plan_id_counter,
                        progress_log_id_counter, today>>

\* pwd_context.verify(plain_password, hashed_password)
verify_password(plain_password, hashed_password) ==
    hashed_password = get_password_hash(plain_password)

\* the first stored user with the username, then the hash stored under the
\* username, then the password: the user's id, or None where the code
\* returns False
authenticate_user(username, password) ==
    LET named == {i \in DOMAIN users_db : users_db[i].username = username}
    IN IF named = {} THEN None
       ELSE IF username \notin DOMAIN users_passwords THEN None
       ELSE IF ~verify_password(password, users_passwords[username]) THEN None
       ELSE CHOOSE i \in named : \A j \in named : i <= j

\* a full replace: fields the patch leaves out are reset
ApplyPatchReplacing(user, patch) ==
    [f \in DOMAIN user |->
        IF f \in DOMAIN patch THEN patch[f]
        ELSE IF f \in {"email", "username", "full_name"} THEN NoneStr
        ELSE user[f]]

\* setattr(current_user, field, value) for every field the patch sets
ApplyPatch(user, patch) ==
    [f \in DOMAIN user |-> IF f \in DOMAIN patch THEN patch[f] ELSE user[f]]

update_user(user_id, user_data) ==
    IF user_id \notin DOMAIN users_db
    THEN /\ last' = Call("updateUser", FALSE, user_id, user_data, None)
         /\ UNCHANGED <<store, today, history, requests, db>>
    ELSE /\ users_db' = [users_db EXCEPT ![user_id] = ApplyPatch(@, user_data)]
         /\ last' = Call("updateUser", TRUE, user_id, user_data, None)
         /\ UNCHANGED <<users_passwords, user_stats_db, exercises_db,
                        exercise_sets_db, workouts_db, workout_exercise_sets,
                        workout_plans_db, progress_logs_db, counters, today, history, requests, db>>

\* a delete that also removes the workouts the user owns
delete_user_cascading(user_id) ==
    IF user_id \notin DOMAIN users_db
    THEN /\ last' = Call("deleteUser", FALSE, user_id, None, None)
         /\ UNCHANGED <<store, today, history, requests, db>>
    ELSE /\ users_db' = Del(users_db, user_id)
         /\ users_passwords' = Del(users_passwords, users_db[user_id].username)
         /\ user_stats_db' = Del(user_stats_db, user_id)
         /\ workouts_db' = DelAll(workouts_db,
                                  {w \in DOMAIN workouts_db :
                                      workouts_db[w].user_id = user_id})
         /\ last' = Call("deleteUser", TRUE, user_id, None, None)
         /\ UNCHANGED <<exercises_db, exercise_sets_db,
                        workout_exercise_sets, workout_plans_db, progress_logs_db,
                        counters, today, history, requests, db>>

delete_user(user_id) ==
    IF user_id \notin DOMAIN users_db
    THEN /\ last' = Call("deleteUser", FALSE, user_id, None, None)
         /\ UNCHANGED <<store, today, history, requests, db>>
    ELSE /\ users_db' = Del(users_db, user_id)
         /\ users_passwords' = Del(users_passwords, users_db[user_id].username)
         /\ user_stats_db' = Del(user_stats_db, user_id)
         /\ last' = Call("deleteUser", TRUE, user_id, None, None)
         /\ UNCHANGED <<exercises_db, exercise_sets_db, workouts_db,
                        workout_exercise_sets, workout_plans_db, progress_logs_db,
                        counters, today, history, requests, db>>

-----------------------------------------------------------------------------
(* Workout operations *)

\* a test for None only, which takes an empty list as provided
ListGivenUnlessNone(l) == l.given

\* Python truthiness of an Optional[List]: None and [] are both false
ListGiven(l) == l.given /\ Len(l.items) > 0

\* Python truthiness of an Optional[int]: None and 0 are both false
Truthy(n) == n # None /\ n # 0

RECURSIVE IdsFrom(_, _)
\* the ids the materializing loop assigns: it reads the counter, then
\* increments it, once per input set
IdsFrom(c, n) == IF n = 0 THEN <<>> ELSE <<c>> \o IdsFrom(NextCounter(c), n - 1)

RECURSIVE CounterAfter(_, _)
\* the counter after n iterations of the materializing loop
CounterAfter(c, n) == IF n = 0 THEN c ELSE CounterAfter(NextCounter(c), n - 1)

\* a loop that lists the new ids but stores no set
PutSetsDropped(sets_db, ids, items) == sets_db

RECURSIVE PutSets(_, _, _)
\* exercise_sets_db[exercise_set_id_counter] = ExerciseSet(id=..., **es_data)
\* for each input set in order (a later write to the same key wins)
PutSets(sets_db, ids, items) ==
    IF Len(ids) = 0 THEN sets_db
    ELSE PutSets(Put(sets_db, Head(ids), Head(items)), Tail(ids), Tail(items))

\* a streak branch with its comparison inverted
StreakAfterInverted(stats, day) ==
    IF stats.last_workout_date # day THEN stats.streak_days + 1 ELSE 1

\* the streak branch of create_workout, evaluated on the stats whose
\* last_workout_date was just assigned
StreakAfter(stats, day) ==
    IF stats.last_workout_date = day THEN stats.streak_days + 1 ELSE 1

\* an update that counts the workout but forgets its minutes
StatsAfterWorkoutCountOnly(stats, duration_minutes) ==
    [stats EXCEPT !.total_workouts = @ + 1,
                  !.last_workout_date = today,
                  !.streak_days = @ + 1,
                  !.last_updated = today]

\* the UserStats update of create_workout
StatsAfterWorkout(stats, duration_minutes) ==
    LET dated == [stats EXCEPT !.total_workouts = @ + 1,
                               !.total_workout_minutes = @ + duration_minutes,
                               !.last_workout_date = today]
    IN [dated EXCEPT !.streak_days = StreakAfter(dated, today),
                     !.last_updated = today]

\* if user_id and user_id in user_stats_db
StatsOwner(user_id) == Truthy(user_id) /\ user_id \in DOMAIN user_stats_db

\* Workout(id=..., created_at=..., user_id=..., **dump(exclude exercise_sets))
WorkoutRecord(workout, created_at, user_id) ==
    [title |-> workout.title, category |-> workout.category,
     duration_minutes |-> workout.duration_minutes,
     created_at |-> created_at, user_id |-> user_id]

\* a join that returns the stored sets last to first
SetsOfReversed(sets_db, ids) ==
    LET present == SelectSeq(ids, LAMBDA i : i \in DOMAIN sets_db)
    IN [k \in 1..Len(present) |->
          [id |-> present[Len(present) + 1 - k],
           exercise_id |-> sets_db[present[Len(present) + 1 - k]].exercise_id,
           reps |-> sets_db[present[Len(present) + 1 - k]].reps]]

\* the ExerciseSet objects of a list of ids, skipping ids not in the store
SetsOf(sets_db, ids) ==
    LET present == SelectSeq(ids, LAMBDA i : i \in DOMAIN sets_db)
    IN [k \in 1..Len(present) |->
          [id |-> present[k], exercise_id |-> sets_db[present[k]].exercise_id,
           reps |-> sets_db[present[k]].reps]]

\* the exercise-set list a workout had (empty when it had none)
ListOf(lists, workout_id) ==
    IF workout_id \in DOMAIN lists THEN lists[workout_id] ELSE <<>>

RECURSIVE SortedIds(_)
\* list(db.values()): the keys in insertion order, which is ascending id order
SortedIds(S) ==
    IF S = {} THEN <<>>
    ELSE LET m == CHOOSE x \in S : \A y \in S : x <= y
         IN <<m>> \o SortedIds(S \ {m})

\* Python truthiness of an Optional[List] of enumerated values: None and []
\* are both false
SetGiven(x) == x.given /\ x.items # {}

\* get_workouts() called without a filter object
NoFilter == [none |-> TRUE]

\* a muscle-group filter that wants every exercise set to match
TargetsMusclesWithEverySet(w, muscle_groups) ==
    \A k \in DOMAIN ListOf(workout_exercise_sets, w) :
        LET es == ListOf(workout_exercise_sets, w)[k]
        IN /\ es \in DOMAIN exercise_sets_db
           /\ exercise_sets_db[es].exercise_id \in DOMAIN exercises_db
           /\ exercises_db[exercise_sets_db[es].exercise_id].muscle_groups
                 \cap muscle_groups # {}

\* the muscle-group filter: some exercise set of the workout names a stored
\* exercise that targets one of the requested groups
TargetsMuscles(w, muscle_groups) ==
    \E k \in DOMAIN ListOf(workout_exercise_sets, w) :
        LET es == ListOf(workout_exercise_sets, w)[k]
        IN /\ es \in DOMAIN exercise_sets_db
           /\ exercise_sets_db[es].exercise_id \in DOMAIN exercises_db
           /\ exercises_db[exercise_sets_db[es].exercise_id].muscle_groups
                 \cap muscle_groups # {}

\* `if filters.min_duration:` / `if filters.max_duration:`
DurationGiven(n) == Truthy(n)

\* the filters of get_workouts, each applied when its field is truthy
PassesFilters(w, filters) ==
    /\ filters.from_date # None => workouts_db[w].created_at >= filters.from_date
    /\ filters.to_date # None => workouts_db[w].created_at <= filters.to_date
    /\ SetGiven(filters.categories) =>
          workouts_db[w].category \in filters.categories.items
    /\ DurationGiven(filters.min_duration) =>
          workouts_db[w].duration_minutes >= filters.min_duration
    /\ DurationGiven(filters.max_duration) =>
          workouts_db[w].duration_minutes <= filters.max_duration
    /\ SetGiven(filters.muscle_groups) =>
          TargetsMuscles(w, filters.muscle_groups.items)

\* the ids of the workouts get_workouts returns, in the order it returns them
WorkoutsListed(filters) ==
    IF filters = NoFilter THEN SortedIds(DOMAIN workouts_db)
    ELSE SelectSeq(SortedIds(DOMAIN workouts_db),
                   LAMBDA w : PassesFilters(w, filters))

get_workouts(filters) ==
    /\ last' = Call("getWorkouts", TRUE, None, filters, WorkoutsListed(filters))
    /\ UNCHANGED <<store, today, history, requests, db>>

create_workout(workout, user_id) ==
    LET wid == workout_id_counter
        items == IF ListGiven(workout.exercise_sets)
                 THEN workout.exercise_sets.items ELSE <<>>
        ids == IdsFrom(exercise_set_id_counter, Len(items))
        returned == [k \in 1..Len(items) |->
                       [id |-> ids[k], exercise_id |-> items[k].exercise_id,
                        reps |-> items[k].reps]]
    IN /\ workout_id_counter <= MaxWorkoutId
       /\ exercise_set_id_counter + Len(items) - 1 <= MaxExerciseSetId
       /\ workouts_db' = Put(workouts_db, wid, WorkoutRecord(workout, today, user_id))
       /\ workout_exercise_sets' = Put(workout_exercise_sets, wid, ids)
       /\ exercise_sets_db' = PutSets(exercise_sets_db, ids, items)
       /\ exercise_set_id_counter' = CounterAfter(exercise_set_id_counter, Len(items))
       /\ user_stats_db' =
            IF StatsOwner(user_id)
            THEN [user_stats_db EXCEPT ![user_id] =
                      StatsAfterWorkout(@, workout.duration_minutes)]
            ELSE user_stats_db
       /\ workout_id_counter' = NextCounter(workout_id_counter)
       /\ last' = Call("createWorkout", TRUE, wid,
                       [workout |-> workout, user_id |-> user_id], returned)
       /\ UNCHANGED <<requests, db>>
       /\ history' = [history EXCEPT !.workouts = @ \cup {wid},
                                   !.exercise_sets = @ \cup Range(ids)]
       /\ UNCHANGED <<users_db, users_passwords, exercises_db, workout_plans_db,
                      progress_logs_db, user_id_counter, exercise_id_counter,
                      workout_plan_id_counter, progress_log_id_counter, today>>

update_workout(workout_id, workout_data) ==
    IF workout_id \notin DOMAIN workouts_db
    THEN /\ last' = Call("updateWorkout", FALSE, workout_id, workout_data, None)
         /\ UNCHANGED <<store, today, history, requests, db>>
    ELSE
      LET replace == ListGiven(workout_data.exercise_sets)
          items == IF replace THEN workout_data.exercise_sets.items ELSE <<>>
          old == IF workout_id \in DOMAIN workout_exercise_sets
                 THEN workout_exercise_sets[workout_id] ELSE <<>>
          ids == IdsFrom(exercise_set_id_counter, Len(items))
          sets == IF replace
                  THEN PutSets(DelAll(exercise_sets_db, Range(old)), ids, items)
                  ELSE exercise_sets_db
          lists == IF replace
                   THEN Put(workout_exercise_sets, workout_id, ids)
                   ELSE workout_exercise_sets
      IN /\ exercise_set_id_counter + Len(items) - 1 <= MaxExerciseSetId
         /\ workouts_db' = [workouts_db EXCEPT ![workout_id] =
                              WorkoutRecord(workout_data, @.created_at, @.user_id)]
         /\ exercise_sets_db' = sets
         /\ workout_exercise_sets' = lists
         /\ exercise_set_id_counter' =
              CounterAfter(exercise_set_id_counter, Len(items))
         /\ last' = Call("updateWorkout", TRUE, workout_id, workout_data,
                         SetsOf(sets, IF workout_id \in DOMAIN lists
                                      THEN lists[workout_id] ELSE <<>>))
         /\ UNCHANGED <<requests, db>>
         /\ history' = [history EXCEPT !.exercise_sets = @ \cup Range(ids)]
         /\ UNCHANGED <<users_db, users_passwords, user_stats_db, exercises_db,
                        workout_plans_db, progress_logs_db, user_id_counter,
                        workout_id_counter, exercise_id_counter,
                        workout_plan_id_counter, progress_log_id_counter, today>>

\* a delete that takes the workout out of its owner's totals
delete_workout_uncounting(workout_id) ==
    IF workout_id \notin DOMAIN workouts_db
    THEN /\ last' = Call("deleteWorkout", FALSE, workout_id, None, None)
         /\ UNCHANGED <<store, today, history, requests, db>>
    ELSE
      LET old == IF workout_id \in DOMAIN workout_exercise_sets
                 THEN workout_exercise_sets[workout_id] ELSE <<>>
          owner == workouts_db[workout_id].user_id
      IN /\ exercise_sets_db' = DelAll(exercise_sets_db, Range(old))
         /\ workout_exercise_sets' = Del(workout_exercise_sets, workout_id)
         /\ workouts_db' = Del(workouts_db, workout_id)
         /\ user_stats_db' =
              IF owner \in DOMAIN user_stats_db
              THEN [user_stats_db EXCEPT
                      ![owner].total_workouts = @ - 1,
                      ![owner].total_workout_minutes =
                          @ - workouts_db[workout_id].duration_minutes]
              ELSE user_stats_db
         /\ last' = Call("deleteWorkout", TRUE, workout_id, None, None)
         /\ UNCHANGED <<users_db, users_passwords, exercises_db,
                        workout_plans_db, progress_logs_db, counters, today, history, requests, db>>

delete_workout(workout_id) ==
    IF workout_id \notin DOMAIN workouts_db
    THEN /\ last' = Call("deleteWorkout", FALSE, workout_id, None, None)
         /\ UNCHANGED <<store, today, history, requests, db>>
    ELSE
      LET old == IF workout_id \in DOMAIN workout_exercise_sets
                 THEN workout_exercise_sets[workout_id] ELSE <<>>
      IN /\ exercise_sets_db' = DelAll(exercise_sets_db, Range(old))
         /\ workout_exercise_sets' = Del(workout_exercise_sets, workout_id)
         /\ workouts_db' = Del(workouts_db, workout_id)
         /\ last' = Call("deleteWorkout", TRUE, workout_id, None, None)
         /\ UNCHANGED <<users_db, users_passwords, user_stats_db, exercises_db,
                        workout_plans_db, progress_logs_db, counters, today, history, requests, db>>

\* get_workout_detail: the workout joined with the stored sets of its list,
\* None when the workout is not stored
get_workout_detail(workout_id) ==
    /\ last' = IF workout_id \notin DOMAIN workouts_db
               THEN Call("getWorkoutDetail", FALSE, workout_id, None, None)
               ELSE Call("getWorkoutDetail", TRUE, workout_id, None,
                         SetsOf(exercise_sets_db,
                                ListOf(workout_exercise_sets, workout_id)))
    /\ UNCHANGED <<store, today, history, requests, db>>

-----------------------------------------------------------------------------
(* Exercise operations *)

create_exercise(exercise, user_id) ==
    /\ exercise_id_counter <= MaxExerciseId
    /\ exercises_db' = Put(exercises_db, exercise_id_counter,
                           [name |-> exercise.name,
                            muscle_groups |-> exercise.muscle_groups,
                            created_by |-> user_id])
    /\ exercise_id_counter' = NextCounter(exercise_id_counter)
    /\ last' = Call("createExercise", TRUE, exercise_id_counter, exercise, None)
    /\ UNCHANGED <<requests, db>>
    /\ history' = [history EXCEPT !.exercises = @ \cup {exercise_id_counter}]
    /\ UNCHANGED <<users_db, users_passwords, user_stats_db, exercise_sets_db,
                   workouts_db, workout_exercise_sets, workout_plans_db,
                   progress_logs_db, user_id_counter, workout_id_counter,
                   exercise_set_id_counter, workout_plan_id_counter,
                   progress_log_id_counter, today>>

update_exercise(exercise_id, exercise_data) ==
    IF exercise_id \notin DOMAIN exercises_db
    THEN /\ last' = Call("updateExercise", FALSE, exercise_id, exercise_data, None)
         /\ UNCHANGED <<store, today, history, requests, db>>
    ELSE /\ exercises_db' = [exercises_db EXCEPT ![exercise_id] =
                               [name |-> exercise_data.name,
                                muscle_groups |-> exercise_data.muscle_groups,
                                created_by |-> @.created_by]]
         /\ last' = Call("updateExercise", TRUE, exercise_id, exercise_data, None)
         /\ UNCHANGED <<users_db, users_passwords, user_stats_db, exercise_sets_db,
                        workouts_db, workout_exercise_sets, workout_plans_db,
                        progress_logs_db, counters, today, history, requests, db>>

\* a scan that finds nothing
ExerciseNeverInUse(exercise_id) == FALSE

\* the scan of delete_exercise: some stored ExerciseSet names the exercise
ExerciseInUse(exercise_id) ==
    \E s \in DOMAIN exercise_sets_db :
        exercise_sets_db[s].exercise_id = exercise_id

delete_exercise(exercise_id) ==
    IF exercise_id \notin DOMAIN exercises_db \/ ExerciseInUse(exercise_id)
    THEN /\ last' = Call("deleteExercise", FALSE, exercise_id, None, None)
         /\ UNCHANGED <<store, today, history, requests, db>>
    ELSE /\ exercises_db' = Del(exercises_db, exercise_id)
         /\ last' = Call("deleteExercise", TRUE, exercise_id, None, None)
         /\ UNCHANGED <<requests, db>>
         /\ history' = [history EXCEPT !.exercise_deletions =
                            @ \cup {<<exercise_id, exercise_set_id_counter>>}]
         /\ UNCHANGED <<users_db, users_passwords, user_stats_db, exercise_sets_db,
                        workouts_db, workout_exercise_sets, workout_plans_db,
                        progress_logs_db, counters, today>>

-----------------------------------------------------------------------------
(* The HTTP layer (src/routers): each endpoint looks the record up, decides
   whether the caller may touch it, calls the CRUD function and answers with
   a status; `last.arg` is the caller's id (current_user.id), `last.ret` the
   status *)

NotFound == "404 Not Found"
Forbidden == "403 Forbidden"
BadRequest == "400 Bad Request"
NoContent == "204 No Content"
Ok == "200 OK"

\* if not crud.delete_exercise(exercise_id): raise HTTPException(400, ...)
DeleteExerciseResponse(deleted) == IF deleted THEN NoContent ELSE BadRequest

\* existing_exercise.created_by and existing_exercise.created_by != current_user.id
ExerciseForbidden(exercise_id, caller) ==
    /\ Truthy(exercises_db[exercise_id].created_by)
    /\ exercises_db[exercise_id].created_by # caller

\* DELETE /exercises/{exercise_id}
api_delete_exercise(exercise_id, caller) ==
    IF exercise_id \notin DOMAIN exercises_db
    THEN /\ last' = Call("apiDeleteExercise", FALSE, exercise_id, caller, NotFound)
         /\ UNCHANGED <<store, today, history, requests, db>>
    ELSE IF ExerciseForbidden(exercise_id, caller)
    THEN /\ last' = Call("apiDeleteExercise", FALSE, exercise_id, caller, Forbidden)
         /\ UNCHANGED <<store, today, history, requests, db>>
    ELSE LET deleted == ~ExerciseInUse(exercise_id)
         IN /\ exercises_db' = IF deleted THEN Del(exercises_db, exercise_id)
                                ELSE exercises_db
            /\ UNCHANGED <<requests, db>>
            /\ history' = IF deleted
                           THEN [history EXCEPT !.exercise_deletions =
                                    @ \cup {<<exercise_id, exercise_set_id_counter>>}]
                           ELSE history
            /\ last' = Call("apiDeleteExercise", deleted, exercise_id, caller,
                            DeleteExerciseResponse(deleted))
            /\ UNCHANGED <<users_db, users_passwords, user_stats_db,
                           exercise_sets_db, workouts_db, workout_exercise_sets,
                           workout_plans_db, progress_logs_db, counters, today>>

-----------------------------------------------------------------------------
(* Workout plan operations *)

create_workout_plan(plan, user_id) ==
    /\ workout_plan_id_counter <= MaxPlanId
    /\ workout_plans_db' = Put(workout_plans_db, workout_plan_id_counter,
                               [name |-> plan.name,
                                duration_weeks |-> plan.duration_weeks,
                                created_at |-> today, created_by |-> user_id,
                                workouts |-> <<>>])
    /\ workout_plan_id_counter' = NextCounter(workout_plan_id_counter)
    /\ last' = Call("createWorkoutPlan", TRUE, workout_plan_id_counter, plan, None)
    /\ UNCHANGED <<requests, db>>
    /\ history' = [history EXCEPT !.workout_plans = @ \cup {workout_plan_id_counter}]
    /\ UNCHANGED <<users_db, users_passwords, user_stats_db, exercises_db,
                   exercise_sets_db, workouts_db, workout_exercise_sets,
                   progress_logs_db, user_id_counter, workout_id_counter,
                   exercise_id_counter, exercise_set_id_counter,
                   progress_log_id_counter, today>>

update_workout_plan(plan_id, plan_data) ==
    IF plan_id \notin DOMAIN workout_plans_db
    THEN /\ last' = Call("updateWorkoutPlan", FALSE, plan_id, plan_data, None)
         /\ UNCHANGED <<store, today, history, requests, db>>
    ELSE /\ workout_plans_db' = [workout_plans_db EXCEPT ![plan_id] =
                                   [name |-> plan_data.name,
                                    duration_weeks |-> plan_data.duration_weeks,
                                    created_at |-> @.created_at,
                                    created_by |-> @.created_by,
                                    workouts |-> @.workouts]]
         /\ last' = Call("updateWorkoutPlan", TRUE, plan_id, plan_data, None)
         /\ UNCHANGED <<users_db, users_passwords, user_stats_db, exercises_db,
                        exercise_sets_db, workouts_db, workout_exercise_sets,
                        progress_logs_db, counters, today, history, requests, db>>

delete_workout_plan(plan_id) ==
    IF plan_id \notin DOMAIN workout_plans_db
    THEN /\ last' = Call("deleteWorkoutPlan", FALSE, plan_id, None, None)
         /\ UNCHANGED <<store, today, history, requests, db>>
    ELSE /\ workout_plans_db' = Del(workout_plans_db, plan_id)
         /\ last' = Call("deleteWorkoutPlan", TRUE, plan_id, None, None)
         /\ UNCHANGED <<users_db, users_passwords, user_stats_db, exercises_db,
                        exercise_sets_db, workouts_db, workout_exercise_sets,
                        progress_logs_db, counters, today, history, requests, db>>

\* list.remove(x): drops the first occurrence of x
RemoveFirst(l, x) ==
    IF x \notin Range(l) THEN l
    ELSE LET k == CHOOSE i \in DOMAIN l :
                      l[i] = x /\ \A j \in 1..(i - 1) : l[j] # x
         IN SubSeq(l, 1, k - 1) \o SubSeq(l, k + 1, Len(l))

\* a remove that leaves the list as it is
RemoveKeeps(l, x) == l

\* if workout_id in plan.workouts: plan.workouts.remove(workout_id)
RemoveIfPresent(l, x) == RemoveFirst(l, x)

\* an append without the membership test
AppendAlways(l, x) == Append(l, x)

\* if workout_id not in plan.workouts: plan.workouts.append(workout_id)
AppendIfAbsent(l, x) == IF x \notin Range(l) THEN Append(l, x) ELSE l

\* a guard that looks only at the plan
AddRefusedForPlanOnly(plan_id, workout_id) == plan_id \notin DOMAIN workout_plans_db

\* the guard that opens add_workout_to_plan
AddRefused(plan_id, workout_id) ==
    plan_id \notin DOMAIN workout_plans_db \/ workout_id \notin DOMAIN workouts_db

add_workout_to_plan(plan_id, workout_id) ==
    IF AddRefused(plan_id, workout_id)
    THEN /\ last' = Call("addWorkoutToPlan", FALSE, plan_id, workout_id, None)
         /\ UNCHANGED <<store, today, history, requests, db>>
    ELSE /\ workout_plans_db' =
              [workout_plans_db EXCEPT ![plan_id].workouts =
                  AppendIfAbsent(@, workout_id)]
         /\ last' = Call("addWorkoutToPlan", TRUE, plan_id, workout_id, None)
         /\ UNCHANGED <<requests, db>>
         /\ history' = [history EXCEPT !.plan_before =
                            [plan_id |-> plan_id, workout_id |-> workout_id,
                             workouts |-> workout_plans_db[plan_id].workouts]]
         /\ UNCHANGED <<users_db, users_passwords, user_stats_db, exercises_db,
                        exercise_sets_db, workouts_db, workout_exercise_sets,
                        progress_logs_db, counters, today>>

remove_workout_from_plan(plan_id, workout_id) ==
    IF plan_id \notin DOMAIN workout_plans_db
    THEN /\ last' = Call("removeWorkoutFromPlan", FALSE, plan_id, workout_id, None)
         /\ UNCHANGED <<store, today, history, requests, db>>
    ELSE /\ workout_plans_db' =
              [workout_plans_db EXCEPT ![plan_id].workouts =
                  RemoveIfPresent(@, workout_id)]
         /\ last' = Call("removeWorkoutFromPlan", TRUE, plan_id, workout_id, None)
         /\ UNCHANGED <<users_db, users_passwords, user_stats_db, exercises_db,
                        exercise_sets_db, workouts_db, workout_exercise_sets,
                        progress_logs_db, counters, today, history, requests, db>>

-----------------------------------------------------------------------------
(* The HTTP layer of workouts and workout plans: each route looks the record
   up, answers 404 when it is missing and 403 when its owner is not the
   caller, and otherwise makes the CRUD call and returns its result *)

\* an owner test that lets everyone change a record without owner
WorkoutForbiddenIfOwned(workout_id, caller) ==
    /\ Truthy(workouts_db[workout_id].user_id)
    /\ workouts_db[workout_id].user_id # caller

\* existing_workout.user_id != current_user.id
WorkoutForbidden(workout_id, caller) ==
    workouts_db[workout_id].user_id # caller

\* existing_plan.created_by != current_user.id
PlanForbidden(plan_id, caller) ==
    workout_plans_db[plan_id].created_by # caller

\* raise HTTPException(status_code=...): the request ends, nothing is written
Refuse(op, id, caller, status) ==
    /\ last' = Call(op, FALSE, id, caller, status)
    /\ UNCHANGED <<store, today, history, requests, db>>

\* PUT /workouts/{workout_id}
api_update_workout(workout_id, workout, caller) ==
    IF workout_id \notin DOMAIN workouts_db
    THEN Refuse("apiUpdateWorkout", workout_id, caller, NotFound)
    ELSE IF WorkoutForbidden(workout_id, caller)
    THEN Refuse("apiUpdateWorkout", workout_id, caller, Forbidden)
    ELSE update_workout(workout_id, workout)

\* DELETE /workouts/{workout_id}
api_delete_workout(workout_id, caller) ==
    IF workout_id \notin DOMAIN workouts_db
    THEN Refuse("apiDeleteWorkout", workout_id, caller, NotFound)
    ELSE IF WorkoutForbidden(workout_id, caller)
    THEN Refuse("apiDeleteWorkout", workout_id, caller, Forbidden)
    ELSE delete_workout(workout_id)

\* PUT /workout-plans/{plan_id}
api_update_workout_plan(plan_id, plan, caller) ==
    IF plan_id \notin DOMAIN workout_plans_db
    THEN Refuse("apiUpdateWorkoutPlan", plan_id, caller, NotFound)
    ELSE IF PlanForbidden(plan_id, caller)
    THEN Refuse("apiUpdateWorkoutPlan", plan_id, caller, Forbidden)
    ELSE update_workout_plan(plan_id, plan)

\* DELETE /workout-plans/{plan_id}
api_delete_workout_plan(plan_id, caller) ==
    IF plan_id \notin DOMAIN workout_plans_db
    THEN Refuse("apiDeleteWorkoutPlan", plan_id, caller, NotFound)
    ELSE IF PlanForbidden(plan_id, caller)
    THEN Refuse("apiDeleteWorkoutPlan", plan_id, caller, Forbidden)
    ELSE delete_workout_plan(plan_id)

\* POST /workout-plans/{plan_id}/workouts/{workout_id}: the workout is
\* looked up after the owner of the plan was checked
api_add_workout_to_plan(plan_id, workout_id, caller) ==
    IF plan_id \notin DOMAIN workout_plans_db
    THEN Refuse("apiAddWorkoutToPlan", plan_id, caller, NotFound)
    ELSE IF PlanForbidden(plan_id, caller)
    THEN Refuse("apiAddWorkoutToPlan", plan_id, caller, Forbidden)
    ELSE IF workout_id \notin DOMAIN workouts_db
    THEN Refuse("apiAddWorkoutToPlan", plan_id, caller, NotFound)
    ELSE add_workout_to_plan(plan_id, workout_id)

\* DELETE /workout-plans/{plan_id}/workouts/{workout_id}
api_remove_workout_from_plan(plan_id, workout_id, caller) ==
    IF plan_id \notin DOMAIN workout_plans_db
    THEN Refuse("apiRemoveWorkoutFromPlan", plan_id, caller, NotFound)
    ELSE IF PlanForbidden(plan_id, caller)
    THEN Refuse("apiRemoveWorkoutFromPlan", plan_id, caller, Forbidden)
    ELSE remove_workout_from_plan(plan_id, workout_id)

-----------------------------------------------------------------------------
(* Progress log operations *)

\* the UserStats update of create_progress_log: `if log.weight:` and
\* `if log.body_fat_percentage:` test the values' truthiness
StatsAfterLog(stats, log) ==
    [stats EXCEPT !.weight = IF Truthy(log.weight) THEN log.weight ELSE @,
                  !.body_fat_percentage =
                      IF Truthy(log.body_fat_percentage)
                      THEN log.body_fat_percentage ELSE @,
                  !.last_updated = today]

create_progress_log(log, user_id) ==
    /\ progress_log_id_counter <= MaxLogId
    /\ progress_logs_db' = Put(progress_logs_db, progress_log_id_counter,
                               [user_id |-> user_id, log_date |-> log.log_date,
                                weight |-> log.weight,
                                body_fat_percentage |-> log.body_fat_percentage,
                                created_at |-> today])
    /\ user_stats_db' = IF user_id \in DOMAIN user_stats_db
                        THEN [user_stats_db EXCEPT ![user_id] = StatsAfterLog(@, log)]
                        ELSE user_stats_db
    /\ progress_log_id_counter' = NextCounter(progress_log_id_counter)
    /\ last' = Call("createProgressLog", TRUE, progress_log_id_counter,
                    [log |-> log, user_id |-> user_id], None)
    /\ UNCHANGED <<requests, db>>
    /\ history' = [history EXCEPT !.progress_logs = @ \cup {progress_log_id_counter}]
    /\ UNCHANGED <<users_db, users_passwords, exercises_db, exercise_sets_db,
                   workouts_db, workout_exercise_sets, workout_plans_db,
                   user_id_counter, workout_id_counter, exercise_id_counter,
                   exercise_set_id_counter, workout_plan_id_counter, today>>

delete_progress_log(log_id) ==
    IF log_id \notin DOMAIN progress_logs_db
    THEN /\ last' = Call("deleteProgressLog", FALSE, log_id, None, None)
         /\ UNCHANGED <<store, today, history, requests, db>>
    ELSE /\ progress_logs_db' = Del(progress_logs_db, log_id)
         /\ last' = Call("deleteProgressLog", TRUE, log_id, None, None)
         /\ UNCHANGED <<users_db, users_passwords, user_stats_db, exercises_db,
                        exercise_sets_db, workouts_db, workout_exercise_sets,
                        workout_plans_db, counters, today, history, requests, db>>

-----------------------------------------------------------------------------
(* Inputs the callers supply *)

UserInputs ==
    {[username |-> "alex", email |-> "a@x.com", full_name |-> "Alex",
      password |-> "hunter22"],
     [username |-> "johndoe", email |-> "a@x.com", full_name |-> "Alex",
      password |-> "hunter22"],
     [username |-> "alex", email |-> "john@example.com", full_name |-> "Alex",
      password |-> "hunter22"]}

EmptyPatch == [f \in {} |-> NoneStr]

\* UserUpdate bodies: model_dump(exclude_unset=True) keeps the fields sent
UserPatches ==
    {EmptyPatch,
     [username |-> "janedoe"],
     [username |-> "alex"],
     [email |-> "jane@example.com", full_name |-> "J. Doe"]}

UserIds == 1..MaxUserId

\* exercise ids an input set may name: a seed exercise and an id no exercise
\* ever has
InputExerciseIds == {1, 99}

SetInputs == {[exercise_id |-> e, reps |-> 12] : e \in InputExerciseIds}

RECURSIVE SeqsUpTo(_, _)
SeqsUpTo(S, n) ==
    IF n = 0 THEN {<<>>}
    ELSE LET shorter == SeqsUpTo(S, n - 1)
         IN shorter \cup {Append(q, x) : q \in shorter, x \in S}

\* WorkoutCreate.exercise_sets: omitted (None), or a list of at most MaxSets
SetListInputs ==
    {[given |-> FALSE, items |-> <<>>]} \cup
    {[given |-> TRUE, items |-> q] : q \in SeqsUpTo(SetInputs, MaxSets)}

WorkoutScalars ==
    {[title |-> "Pushups", category |-> "strength", duration_minutes |-> 20]}

WorkoutInputs ==
    {[title |-> w.title, category |-> w.category,
      duration_minutes |-> w.duration_minutes, exercise_sets |-> l] :
        w \in WorkoutScalars, l \in SetListInputs}

\* the owner passed with a workout: none (owners with and without a
\* UserStats record are StatsOwnerIds)
OwnerIds == {None}

\* workouts addressed by update and delete: a seed workout, the workouts
\* create_workout adds, and one id that is never stored
WorkoutIds == {2} \cup (4..(MaxWorkoutId + 1))

ExerciseInputs == {[name |-> "Pushups", muscle_groups |-> {"chest"}]}

\* exercises addressed by delete: a seed exercise and the exercises
\* create_exercise adds
ExerciseIds == {3} \cup (6..MaxExerciseId)

\* the seed exercise that seed set 1 and the input sets name
UsedExerciseIds == {1}

-----------------------------------------------------------------------------
(* Actions *)

\* delete_exercise on the exercises the workout operations refer to
DeleteUsedExercise == \E id \in UsedExerciseIds : delete_exercise(id)

\* the user operations of the CRUD layer
NextUsers ==
    \/ \E user \in UserInputs : create_user(user)
    \/ \E id \in UserIds, patch \in UserPatches : update_user(id, patch)
    \/ \E id \in UserIds : delete_user(id)

SpecUsers == Init /\ [][NextUsers]_vars

\* the workout and exercise operations of the CRUD layer
NextWorkouts ==
    \/ \E workout \in WorkoutInputs, owner \in OwnerIds : create_workout(workout, owner)
    \/ \E id \in WorkoutIds, workout \in WorkoutInputs : update_workout(id, workout)
    \/ \E id \in WorkoutIds : delete_workout(id)
    \/ DeleteUsedExercise

SpecWorkouts == Init /\ [][NextWorkouts]_vars

-----------------------------------------------------------------------------
(* Id assignment: every create and every delete of the CRUD layer, each
   with one input, at most MaxCreates records created in a run *)

CreatedSoFar ==
    (user_id_counter - CounterStart(SeedUsers)) +
    (workout_id_counter - CounterStart(SeedWorkouts)) +
    (exercise_id_counter - CounterStart(SeedExercises)) +
    (workout_plan_id_counter - CounterStart(SeedWorkoutPlans)) +
    (progress_log_id_counter - CounterStart(SeedProgressLogs))

MayCreate == CreatedSoFar < MaxCreates

OneUser == [username |-> "alex", email |-> "a@x.com", full_name |-> "Alex",
            password |-> "hunter22"]

OneSet == [exercise_id |-> 1, reps |-> 12]

OneWorkout == [title |-> "Pushups", category |-> "strength",
               duration_minutes |-> 20,
               exercise_sets |-> [given |-> TRUE, items |-> <<OneSet, OneSet>>]]

OnePlan == [name |-> "Plan", duration_weeks |-> 4]

OneLog == [log_date |-> 0, weight |-> 180, body_fat_percentage |-> None]

\* the last seed id of a collection and the ids a create may add
LastAndNew(collection, max) == Cardinality(DOMAIN collection)..max

NextIds ==
    \/ MayCreate /\ create_user(OneUser)
    \/ \E id \in LastAndNew(SeedUsers, MaxUserId) : delete_user(id)
    \/ MayCreate /\ create_workout(OneWorkout, None)
    \/ \E id \in LastAndNew(SeedWorkouts, MaxWorkoutId) : update_workout(id, OneWorkout)
    \/ \E id \in LastAndNew(SeedWorkouts, MaxWorkoutId) : delete_workout(id)
    \/ MayCreate /\ \E exercise \in ExerciseInputs : create_exercise(exercise, 1)
    \/ \E id \in LastAndNew(SeedExercises, MaxExerciseId) : delete_exercise(id)
    \/ MayCreate /\ create_workout_plan(OnePlan, 1)
    \/ \E id \in LastAndNew(SeedWorkoutPlans, MaxPlanId) : delete_workout_plan(id)
    \/ MayCreate /\ create_progress_log(OneLog, 1)
    \/ \E id \in LastAndNew(SeedProgressLogs, MaxLogId) : delete_progress_log(id)

SpecIds == Init /\ [][NextIds]_vars

\* the collection a create operation adds to
CollectionOf(op) ==
    CASE op = "createUser" -> "users"
      [] op = "createWorkout" -> "workouts"
      [] op = "createExercise" -> "exercises"
      [] op = "createWorkoutPlan" -> "workout_plans"
      [] op = "createProgressLog" -> "progress_logs"

CreateOps == {"createUser", "createWorkout", "createExercise",
              "createWorkoutPlan", "createProgressLog"}

\* the exercise-set ids a call assigned
AssignedSetIds(call) ==
    IF call.op = "createWorkout"
       \/ (call.op = "updateWorkout" /\ call.ok /\ ListGiven(call.arg.exercise_sets))
    THEN [k \in 1..Len(call.ret) |-> call.ret[k].id]
    ELSE <<>>

\* C3: the id a create assigns, and every exercise-set id a workout create or
\* update assigns, is greater than every id stored before in its collection
\* (seed and deleted records included), and the ids one call assigns increase
\* in input order.
C3_AssignedIdsAreFresh ==
    [][/\ (last'.op \in CreateOps /\ last'.ok) =>
            \A j \in history[CollectionOf(last'.op)] : last'.id > j
       /\ LET ids == AssignedSetIds(last')
          IN /\ \A k \in 1..Len(ids) : \A j \in history.exercise_sets : ids[k] > j
             /\ \A k \in 1..(Len(ids) - 1) : ids[k] < ids[k + 1]]_vars

\* a user was created after the last seed user had been deleted
C3_Witness ==
    /\ last.op = "createUser"
    /\ last.ok
    /\ \E j \in history.users : j \notin DOMAIN users_db

-----------------------------------------------------------------------------
(* UserStats: workouts logged for owners with and without a stats record,
   on different days, while users register and leave *)

StatsWorkoutInputs ==
    {[title |-> "Pushups", category |-> "strength", duration_minutes |-> d,
      exercise_sets |-> l] :
        d \in {20, 45},
        l \in {[given |-> FALSE, items |-> <<>>],
               [given |-> TRUE, items |-> <<OneSet>>]}}

\* no owner, the falsy id 0, the seed users, and the first registered user
StatsOwnerIds == {None, 0, 1, 2, 3}

NextStats ==
    \/ \E workout \in StatsWorkoutInputs, owner \in StatsOwnerIds :
           create_workout(workout, owner)
    \/ create_user(OneUser)
    \/ \E id \in {1, 3} : delete_user(id)
    \/ AdvanceDay

SpecStats == Init /\ [][NextStats]_vars

\* C10: createWorkout for an owner that has a UserStats record adds 1 to its
\* total_workouts and the input's duration_minutes to its
\* total_workout_minutes and sets its last_workout_date to today; for an
\* owner without a record the workout is stored all the same and no UserStats
\* record is created or changed.
C10_CreateWorkoutUpdatesStats ==
    [][last'.op = "createWorkout" =>
          LET uid == last'.arg.user_id
              workout == last'.arg.workout
          IN /\ last'.id \in DOMAIN workouts_db'
             /\ workouts_db'[last'.id].user_id = uid
             /\ IF uid \in DOMAIN user_stats_db
                THEN /\ DOMAIN user_stats_db' = DOMAIN user_stats_db
                     /\ user_stats_db'[uid].total_workouts =
                            user_stats_db[uid].total_workouts + 1
                     /\ user_stats_db'[uid].total_workout_minutes =
                            user_stats_db[uid].total_workout_minutes
                              + workout.duration_minutes
                     /\ user_stats_db'[uid].last_workout_date = today'
                ELSE user_stats_db' = user_stats_db]_vars

\* a workout was logged, a day after the seed, for an owner with a record
C10_Witness ==
    /\ last.op = "createWorkout"
    /\ last.arg.user_id \in DOMAIN user_stats_db
    /\ today > 0
    /\ user_stats_db[last.arg.user_id].last_workout_date = today
    /\ user_stats_db[last.arg.user_id].total_workout_minutes > 0

\* C11: every createWorkout for an owner that has a UserStats record adds
\* exactly 1 to its streak_days, whatever its last_workout_date was before
\* the call, and no operation lowers the streak_days of a record that stays.
C11_StreakGrowsByOne ==
    [][/\ (last'.op = "createWorkout"
            /\ last'.arg.user_id \in DOMAIN user_stats_db) =>
            user_stats_db'[last'.arg.user_id].streak_days =
                user_stats_db[last'.arg.user_id].streak_days + 1
       /\ \A u \in DOMAIN user_stats_db \cap DOMAIN user_stats_db' :
            user_stats_db'[u].streak_days >= user_stats_db[u].streak_days]_vars

\* seed user 1, whose last workout was on day 0, logged its next workout two
\* or more days later and its streak went from 3 to 4
C11_Witness ==
    /\ last.op = "createWorkout"
    /\ last.arg.user_id = 1
    /\ today >= 2
    /\ 1 \in DOMAIN user_stats_db
    /\ user_stats_db[1].total_workouts = SeedUserStats[1].total_workouts + 1
    /\ user_stats_db[1].streak_days = SeedUserStats[1].streak_days + 1

-----------------------------------------------------------------------------
(* Progress logs: logs that supply, omit or zero weight and body fat, for a
   user with a UserStats record and for one without *)

\* ProgressLogCreate bodies: each measure omitted, 0, or a positive number
LogInputs ==
    {[log_date |-> 0, weight |-> w, body_fat_percentage |-> b] :
        w \in {None, 0, 175}, b \in {None, 0, 120}}

\* a seed user, and an id that has no UserStats record
LogUserIds == {1, 3}

NextProgress ==
    \/ \E log \in LogInputs, user_id \in LogUserIds : create_progress_log(log, user_id)
    \/ \E id \in LastAndNew(SeedProgressLogs, MaxLogId) : delete_progress_log(id)

SpecProgress == Init /\ [][NextProgress]_vars

\* C12: after createProgressLog for a user that has a UserStats record, the
\* record's weight is the log's weight if the log supplies one (0 included)
\* and is unchanged if the log omits it; likewise, independently, for
\* body_fat_percentage.
C12_LogOverwritesSuppliedMeasures ==
    [][(last'.op = "createProgressLog"
            /\ last'.arg.user_id \in DOMAIN user_stats_db) =>
          LET log == last'.arg.log
              before == user_stats_db[last'.arg.user_id]
              after == user_stats_db'[last'.arg.user_id]
          IN /\ after.weight =
                    IF log.weight # None THEN log.weight ELSE before.weight
             /\ after.body_fat_percentage =
                    IF log.body_fat_percentage # None
                    THEN log.body_fat_percentage
                    ELSE before.body_fat_percentage]_vars

-----------------------------------------------------------------------------
(* Workout plans: workouts added to and removed from a seed plan and a new
   plan, among them a workout that was deleted and an id no workout has *)

OtherPlan == [name |-> "Plan B", duration_weeks |-> 6]

\* plans addressed: the plans create_workout_plan adds, and one id that is
\* never stored
PlanIds == 3..(MaxPlanId + 1)

\* workouts addressed: seed workouts 1 and 2 and an id no workout has
PlanWorkoutIds == {1, 2, 9}

NextPlans ==
    \/ create_workout_plan(OnePlan, 1)
    \/ \E id \in PlanIds : update_workout_plan(id, OtherPlan)
    \/ \E id \in PlanIds, w \in PlanWorkoutIds : add_workout_to_plan(id, w)
    \/ \E id \in PlanIds, w \in PlanWorkoutIds : remove_workout_from_plan(id, w)
    \* seed workout 1, which seed plan 2 lists, is deleted
    \/ delete_workout(1)

SpecPlans == Init /\ [][NextPlans]_vars

\* no id occurs twice in the list
NoDuplicates(l) == \A i, j \in DOMAIN l : i # j => l[i] # l[j]

\* C13: no plan's workouts list ever holds a workout id twice, and
\* addWorkoutToPlan of a workout the plan already lists succeeds and leaves
\* the list as it was (so a second call with the same planId and workoutId
\* changes nothing and the id is there exactly once).
C13_PlanListsHaveNoDuplicates ==
    [][/\ \A p \in DOMAIN workout_plans_db : NoDuplicates(workout_plans_db[p].workouts)
       /\ \A p \in DOMAIN workout_plans_db' :
              NoDuplicates(workout_plans_db'[p].workouts)
       /\ (/\ last'.op = "addWorkoutToPlan"
           /\ last'.id \in DOMAIN workout_plans_db
           /\ last'.arg \in Range(workout_plans_db[last'.id].workouts)
           /\ last'.arg \in DOMAIN workouts_db)
             => /\ last'.ok
                /\ workout_plans_db' = workout_plans_db]_vars

\* a workout was added to a plan that already listed it, right after a
\* different call, and the plan lists two workouts
C13_Witness ==
    /\ last.op = "addWorkoutToPlan"
    /\ last.ok
    /\ last.id \in DOMAIN workout_plans_db
    /\ history.plan_before.plan_id = last.id
    /\ history.plan_before.workout_id = last.arg
    /\ history.plan_before.workouts = workout_plans_db[last.id].workouts
    /\ last.arg \in Range(history.plan_before.workouts)
    /\ Len(workout_plans_db[last.id].workouts) = 2

\* C14 as stated: addWorkoutToPlan fails only when the plan is not stored;
\* on a stored plan it succeeds and the plan then lists workoutId, whether or
\* not workoutId is a key of the Workout collection; removeWorkoutFromPlan on
\* a stored plan succeeds whether or not the workout is stored.
C14_AddFailsOnlyForMissingPlan ==
    [][/\ last'.op = "addWorkoutToPlan" =>
            IF last'.id \in DOMAIN workout_plans_db
            THEN /\ last'.ok
                 /\ last'.arg \in Range(workout_plans_db'[last'.id].workouts)
            ELSE ~last'.ok /\ store' = store
       /\ last'.op = "removeWorkoutFromPlan" =>
            (last'.ok <=> last'.id \in DOMAIN workout_plans_db)]_vars

\* C14 amended: addWorkoutToPlan fails, changing nothing, when the plan is
\* not stored or workoutId is not a key of the Workout collection, and
\* otherwise succeeds and the plan lists workoutId; removeWorkoutFromPlan
\* fails only when the plan is not stored, whether or not the workout is.
C14_AddChecksPlanAndWorkout ==
    [][/\ last'.op = "addWorkoutToPlan" =>
            IF /\ last'.id \in DOMAIN workout_plans_db
               /\ last'.arg \in DOMAIN workouts_db
            THEN /\ last'.ok
                 /\ last'.arg \in Range(workout_plans_db'[last'.id].workouts)
            ELSE ~last'.ok /\ store' = store
       /\ last'.op = "removeWorkoutFromPlan" =>
            (last'.ok <=> last'.id \in DOMAIN workout_plans_db)]_vars

\* an add was refused on a stored plan for a workout that had been deleted,
\* while the plan still lists that workout
C14_Witness ==
    /\ last.op = "addWorkoutToPlan"
    /\ ~last.ok
    /\ last.id \in DOMAIN workout_plans_db
    /\ last.arg \notin DOMAIN workouts_db
    /\ last.arg \in history.workouts
    /\ last.arg \in Range(workout_plans_db[last.id].workouts)

\* C15: for a stored plan P and a workout W that P does not list,
\* addWorkoutToPlan(P, W) followed at once by removeWorkoutFromPlan(P, W)
\* leaves P with exactly the list it had before the add; and
\* removeWorkoutFromPlan of a workout a stored plan does not list succeeds
\* and changes nothing.
C15_AddThenRemoveRestores ==
    [][/\ (/\ last.op = "addWorkoutToPlan"
           /\ last.id \in DOMAIN workout_plans_db
           /\ last'.op = "removeWorkoutFromPlan"
           /\ last'.id = last.id
           /\ last'.arg = last.arg) =>
            LET before == IF last.ok THEN history.plan_before.workouts
                          ELSE workout_plans_db[last.id].workouts
            IN last.arg \notin Range(before) =>
                  /\ last'.ok
                  /\ workout_plans_db'[last.id].workouts = before
       /\ (/\ last'.op = "removeWorkoutFromPlan"
           /\ last'.id \in DOMAIN workout_plans_db
           /\ last'.arg \notin Range(workout_plans_db[last'.id].workouts)) =>
            (last'.ok /\ store' = store)]_vars

\* a workout was added to a plan listing one other workout and then removed
\* from it, and the plan has the list it had before the add
C15_Witness ==
    /\ last.op = "removeWorkoutFromPlan"
    /\ last.ok
    /\ last.id \in DOMAIN workout_plans_db
    /\ history.plan_before.plan_id = last.id
    /\ history.plan_before.workout_id = last.arg
    /\ history.plan_before.workouts = workout_plans_db[last.id].workouts
    /\ Len(workout_plans_db[last.id].workouts) = 1
    /\ last.arg \notin Range(workout_plans_db[last.id].workouts)

\* C18: deleteUser leaves the Workout, ExerciseSet, Exercise, WorkoutPlan
\* and ProgressLog collections, the workouts' set lists and every id counter
\* as they were, so records naming the deleted user stay stored.
C18_DeleteUserDoesNotCascade ==
    [][last'.op = "deleteUser" =>
          /\ workouts_db' = workouts_db
          /\ workout_exercise_sets' = workout_exercise_sets
          /\ exercise_sets_db' = exercise_sets_db
          /\ exercises_db' = exercises_db
          /\ workout_plans_db' = workout_plans_db
          /\ progress_logs_db' = progress_logs_db
          /\ counters' = counters]_vars

\* a user was deleted that a workout logged since the seed, a plan, an
\* exercise and a progress log still name
C18_Witness ==
    /\ last.op = "deleteUser"
    /\ last.ok
    /\ last.id \notin DOMAIN users_db
    /\ \E w \in DOMAIN workouts_db \ DOMAIN SeedWorkouts :
          workouts_db[w].user_id = last.id
    /\ \E p \in DOMAIN workout_plans_db : workout_plans_db[p].created_by = last.id
    /\ \E e \in DOMAIN exercises_db : exercises_db[e].created_by = last.id
    /\ \E l \in DOMAIN progress_logs_db : progress_logs_db[l].user_id = last.id

-----------------------------------------------------------------------------
(* Listing workouts: filters on category and duration, bounds of 0 among
   them, over a store that grows and shrinks *)

\* WorkoutFilter objects: a category list omitted or given, each duration
\* bound omitted, 0, or 45
ListFilters ==
    {[from_date |-> None, to_date |-> None, categories |-> c,
      min_duration |-> lo, max_duration |-> hi,
      muscle_groups |-> [given |-> FALSE, items |-> {}]] :
        c \in {[given |-> FALSE, items |-> {}],
               [given |-> TRUE, items |-> {"cardio"}],
               [given |-> TRUE, items |-> {"strength", "mobility"}]},
        lo \in {None, 0, 45}, hi \in {None, 0, 45}}

ListWorkoutInputs ==
    {[title |-> "Pushups", category |-> "strength", duration_minutes |-> 20,
      exercise_sets |-> [given |-> FALSE, items |-> <<>>]],
     [title |-> "Intervals", category |-> "cardio", duration_minutes |-> 45,
      exercise_sets |-> [given |-> FALSE, items |-> <<>>]]}

NextList ==
    \/ \E filters \in ListFilters \cup {NoFilter} : get_workouts(filters)
    \/ \E workout \in ListWorkoutInputs : create_workout(workout, None)
    \/ \E id \in {1, 2} : delete_workout(id)

SpecList == Init /\ [][NextList]_vars

\* C20: listWorkouts(filter) returns, in ascending id (insertion) order,
\* exactly the stored workouts whose category is in the filter's categories
\* if supplied, whose duration_minutes is at least min_duration if supplied
\* and at most max_duration if supplied, a supplied bound of 0 included.
C20_ListAppliesEverySuppliedFilter ==
    (last.op = "getWorkouts" /\ last.arg # NoFilter) =>
        LET filters == last.arg
            wanted == {w \in DOMAIN workouts_db :
                         /\ filters.categories.given =>
                               workouts_db[w].category \in filters.categories.items
                         /\ filters.min_duration # None =>
                               workouts_db[w].duration_minutes >= filters.min_duration
                         /\ filters.max_duration # None =>
                               workouts_db[w].duration_minutes <= filters.max_duration}
        IN /\ Range(last.ret) = wanted
           /\ Len(last.ret) = Cardinality(wanted)
           /\ \A i, j \in DOMAIN last.ret : i < j => last.ret[i] < last.ret[j]

-----------------------------------------------------------------------------
(* Listing workouts by muscle group: workouts without sets, with sets that
   name matching, non-matching and missing exercises *)

\* WorkoutFilter objects that supply only muscle_groups
MuscleFilters ==
    {[from_date |-> None, to_date |-> None,
      categories |-> [given |-> FALSE, items |-> {}],
      min_duration |-> None, max_duration |-> None,
      muscle_groups |-> [given |-> TRUE, items |-> m]] :
        m \in {{"chest"}, {"legs", "back"}}}

\* set lists: omitted; one set of Bench Press (chest); a set of a missing
\* exercise followed by one of Squat (legs); one set of a missing exercise
MuscleSetLists ==
    {[given |-> FALSE, items |-> <<>>],
     [given |-> TRUE, items |-> <<[exercise_id |-> 1, reps |-> 12]>>],
     [given |-> TRUE, items |-> <<[exercise_id |-> 99, reps |-> 12],
                                   [exercise_id |-> 2, reps |-> 12]>>],
     [given |-> TRUE, items |-> <<[exercise_id |-> 99, reps |-> 12]>>]}

MuscleWorkoutInputs ==
    {[title |-> "Pushups", category |-> "strength", duration_minutes |-> 20,
      exercise_sets |-> l] : l \in MuscleSetLists}

NextMuscles ==
    \/ \E filters \in MuscleFilters : get_workouts(filters)
    \/ \E workout \in MuscleWorkoutInputs : create_workout(workout, None)
    \/ \E workout \in MuscleWorkoutInputs : update_workout(2, workout)
    \/ \E id \in {1, 4} : delete_workout(id)

SpecMuscles == Init /\ [][NextMuscles]_vars

\* the exercises the sets of workout w's list name, stored or not
ExercisesNamedBy(w) ==
    IF w \in DOMAIN workout_exercise_sets
    THEN {exercise_sets_db[e].exercise_id :
            e \in Range(workout_exercise_sets[w]) \cap DOMAIN exercise_sets_db}
    ELSE {}

\* C21: with a non-empty muscle_groups filter and no other filter,
\* listWorkouts returns exactly the stored workouts of which some exercise
\* set names a stored exercise whose muscle_groups meet the filter's set
\* (so none without sets, none naming only other or missing exercises), each
\* once, in ascending id order.
C21_MuscleFilterMatchesAnySet ==
    (last.op = "getWorkouts" /\ last.arg # NoFilter
        /\ last.arg.muscle_groups.given) =>
        LET wanted == {w \in DOMAIN workouts_db :
                         \E x \in ExercisesNamedBy(w) \cap DOMAIN exercises_db :
                             exercises_db[x].muscle_groups
                               \cap last.arg.muscle_groups.items # {}}
        IN /\ Range(last.ret) = wanted
           /\ Len(last.ret) = Cardinality(wanted)
           /\ \A i, j \in DOMAIN last.ret : i < j => last.ret[i] < last.ret[j]

\* a listing by muscle group returned a workout whose first set names a
\* missing exercise and left out a workout without sets and a workout whose
\* only set names another muscle group
C21_Witness ==
    /\ last.op = "getWorkouts"
    /\ last.arg # NoFilter
    /\ last.arg.muscle_groups.given
    /\ \E w \in Range(last.ret) :
          /\ Len(workout_exercise_sets[w]) = 2
          /\ exercise_sets_db[workout_exercise_sets[w][1]].exercise_id
                \notin DOMAIN exercises_db
    /\ \E w \in DOMAIN workouts_db \ Range(last.ret) :
          workout_exercise_sets[w] = <<>>
    /\ \E w \in DOMAIN workouts_db \ Range(last.ret) :
          /\ Len(workout_exercise_sets[w]) = 1
          /\ exercise_sets_db[workout_exercise_sets[w][1]].exercise_id
                \in DOMAIN exercises_db

-----------------------------------------------------------------------------
(* Failure: every operation that can fail, on a stored record and on an id
   that is never stored *)

\* an id no collection ever holds
AbsentId == 9

NextFailures ==
    \/ \E user \in {OneUser,
                     [username |-> "johndoe", email |-> "j@x.com",
                      full_name |-> "John", password |-> "hunter22"]} :
           create_user(user)
    \/ \E id \in {1, AbsentId} : update_user(id, [full_name |-> "J. Doe"])
    \/ \E id \in {1, AbsentId} : delete_user(id)
    \/ \E id \in {2, AbsentId} :
           update_workout(id, [title |-> "Pushups", category |-> "strength",
                               duration_minutes |-> 20,
                               exercise_sets |-> [given |-> FALSE, items |-> <<>>]])
    \/ \E id \in {2, AbsentId} : delete_workout(id)
    \/ \E id \in {1, AbsentId}, exercise \in ExerciseInputs :
           update_exercise(id, exercise)
    \* Bench Press, which seed set 1 names until workout 2 is deleted, and an
    \* absent id
    \/ \E id \in {1, AbsentId} : delete_exercise(id)
    \/ \E id \in {1, AbsentId} : update_workout_plan(id, OtherPlan)
    \/ \E id \in {1, AbsentId} : delete_workout_plan(id)
    \/ \E id \in {1, AbsentId}, w \in {1, AbsentId} : add_workout_to_plan(id, w)
    \/ \E id \in {1, AbsentId}, w \in {2, AbsentId} : remove_workout_from_plan(id, w)
    \/ \E id \in {1, AbsentId} : delete_progress_log(id)

SpecFailures == Init /\ [][NextFailures]_vars

\* C22: a call that reports failure leaves every collection and every id
\* counter as it was before the call.
C22_FailureChangesNothing ==
    [][~last'.ok => store' = store]_vars

\* a registration was refused as a duplicate after other records had been
\* changed and deleted
C22_Witness ==
    /\ last.op = "createUser"
    /\ ~last.ok
    /\ 1 \notin DOMAIN workout_plans_db
    /\ 1 \notin DOMAIN progress_logs_db
    /\ \E i \in DOMAIN users_db : users_db[i].username = last.arg.username

-----------------------------------------------------------------------------
(* Deleting exercises through the CRUD function and through the endpoint *)

\* the authenticated callers: the seed users
CallerIds == {1, 2}

\* exercises addressed through the endpoint: Bench Press (named by seed set 1),
\* Deadlift and Running (named by no set / by seed set 3, created by users 1
\* and 2), the exercises create_exercise adds, and an id never stored
ApiExerciseIds == {1, 3, 4} \cup (6..(MaxExerciseId + 1))

NextExerciseApi ==
    \/ \E id \in ApiExerciseIds, caller \in CallerIds : api_delete_exercise(id, caller)
    \/ DeleteUsedExercise
    \/ \E id \in ExerciseIds : delete_exercise(id)
    \/ \E exercise \in ExerciseInputs : create_exercise(exercise, 1)
    \* seed workouts 1 and 2, whose sets name Running and Bench Press, are deleted
    \/ \E id \in {1, 2} : delete_workout(id)

SpecExerciseApi == Init /\ [][NextExerciseApi]_vars

\* C23: the outcome deleteExercise reports for an exercise some ExerciseSet
\* names differs from the outcome it reported, one call earlier, for an id
\* that is not stored, so the caller can tell InUse from NotFound.
C23_InUseDiffersFromNotFound ==
    [][(/\ last.op = "deleteExercise"
        /\ last.id \notin DOMAIN exercises_db
        /\ last'.op = "deleteExercise"
        /\ last'.id \in DOMAIN exercises_db
        /\ \E e \in DOMAIN exercise_sets_db :
              exercise_sets_db[e].exercise_id = last'.id)
          => <<last'.ok, last'.ret>> # <<last.ok, last.ret>>]_vars

-----------------------------------------------------------------------------
(* The UserStats aggregate: workouts and logs of seed user 1 created,
   changed and deleted, next to operations on other collections *)

AggregateWorkout ==
    [title |-> "Pushups", category |-> "strength", duration_minutes |-> 20,
     exercise_sets |-> [given |-> TRUE, items |-> <<OneSet>>]]

AggregateLog == [log_date |-> 0, weight |-> 175, body_fat_percentage |-> 120]

NextAggregates ==
    \/ create_workout(AggregateWorkout, 1)
    \* seed workout 2 (owned by user 1) and the workouts created since
    \/ \E id \in {2} \cup (4..MaxWorkoutId) :
           update_workout(id, [AggregateWorkout EXCEPT
                                   !.duration_minutes = 60,
                                   !.exercise_sets = [given |-> FALSE, items |-> <<>>]])
    \/ \E id \in {2} \cup (4..MaxWorkoutId) : delete_workout(id)
    \/ create_progress_log(AggregateLog, 1)
    \/ \E id \in {1} \cup (3..MaxLogId) : delete_progress_log(id)
    \/ update_user(1, [full_name |-> "J. Doe"])
    \/ delete_user(1)
    \/ create_user(OneUser)
    \/ update_workout_plan(1, OtherPlan)
    \/ update_exercise(1, [name |-> "Burpee", muscle_groups |-> {"core"}])

SpecAggregates == Init /\ [][NextAggregates]_vars

\* C24: the UserStats collection changes only in createUser, deleteUser,
\* createWorkout and createProgressLog steps; in particular deleteProgressLog,
\* updateWorkout and deleteWorkout leave every record (weight, body fat,
\* total_workouts, total_workout_minutes, streak_days, last_workout_date) as
\* it was.
C24_StatsChangeOnlyOnCreate ==
    [][user_stats_db' # user_stats_db =>
          last'.op \in {"createUser", "deleteUser", "createWorkout",
                        "createProgressLog"}]_vars

\* the log that set user 1's weight to 175 was deleted, a workout counted
\* for user 1 was deleted too, and the stats still show both
C24_Witness ==
    /\ last.op = "deleteProgressLog"
    /\ last.ok
    /\ last.id \notin DOMAIN SeedProgressLogs
    /\ 1 \in DOMAIN user_stats_db
    /\ user_stats_db[1].weight = AggregateLog.weight
    /\ \A l \in DOMAIN progress_logs_db :
          progress_logs_db[l].weight # AggregateLog.weight
    /\ user_stats_db[1].total_workouts = SeedUserStats[1].total_workouts + 1
    /\ \A w \in DOMAIN workouts_db : w \in DOMAIN SeedWorkouts

-----------------------------------------------------------------------------
(* Request threads. The endpoints are plain `def` functions, which the
   framework runs on worker threads, so two requests interleave between the
   statements of register_user / create_user and of create_workout. Each
   statement is one step; a request keeps its position in pc and the id it
   read in id. `raced` is bookkeeping: the requests that had passed their
   checks and read nothing newer when this one, or they, first wrote. *)

Step(r, pc, fields) ==
    [requests EXCEPT ![r] = [f \in DOMAIN @ |->
        IF f = "pc" THEN pc
        ELSE IF f \in DOMAIN fields THEN fields[f] ELSE @[f]]]

\* the requests of the same operation that stand between their reads and
\* their first write
Pending(r, pc) ==
    {q \in Requests \ {r} : requests[q].pc = pc}

\* the position of r moves on and the requests pending with it are noted
\* on both sides
StepRaced(r, pc, pending) ==
    [q \in Requests |->
        IF q = r THEN [requests[q] EXCEPT !.pc = pc, !.raced = @ \cup pending]
        ELSE IF q \in pending THEN [requests[q] EXCEPT !.raced = @ \cup {r}]
        ELSE requests[q]]

\* POST /users/register is picked up
BeginRegister(r, user) ==
    /\ requests[r].pc = "idle"
    /\ requests' = Step(r, "route", [op |-> "createUser", arg |-> user])
    /\ UNCHANGED <<store, today, last, history, db>>

\* the duplicate check of the route
RegisterRoute(r) ==
    /\ requests[r].pc = "route"
    /\ IF UserExists(requests[r].arg)
       THEN /\ requests' = Step(r, "done", [ok |-> FALSE])
            /\ last' = Call("createUser", FALSE, None, requests[r].arg, None)
       ELSE /\ requests' = Step(r, "check", [ok |-> FALSE])
            /\ UNCHANGED last
    /\ UNCHANGED <<store, today, history, db>>

\* the duplicate check that opens create_user
RegisterCheck(r) ==
    /\ requests[r].pc = "check"
    /\ IF UserExists(requests[r].arg)
       THEN /\ requests' = Step(r, "done", [ok |-> FALSE])
            /\ last' = Call("createUser", FALSE, None, requests[r].arg, None)
       ELSE /\ requests' = Step(r, "build", [ok |-> FALSE])
            /\ UNCHANGED last
    /\ UNCHANGED <<store, today, history, db>>

\* new_user = User(id=user_id_counter, ...)
RegisterBuild(r) ==
    /\ requests[r].pc = "build"
    /\ requests' = Step(r, "store", [id |-> user_id_counter])
    /\ UNCHANGED <<store, today, last, history, db>>

\* a write that repeats the duplicate check, as it would under a lock
RegisterStoreRechecking(r) ==
    /\ requests[r].pc = "store"
    /\ IF UserExists(requests[r].arg)
       THEN /\ requests' =
                [StepRaced(r, "done", Pending(r, "store") \cup Pending(r, "build"))
                    EXCEPT ![r].ok = FALSE]
            /\ UNCHANGED <<users_db, history>>
       ELSE /\ requests' =
                StepRaced(r, "password", Pending(r, "store") \cup Pending(r, "build"))
            /\ users_db' = Put(users_db, user_id_counter,
                               [email |-> requests[r].arg.email,
                                username |-> requests[r].arg.username,
                                full_name |-> requests[r].arg.full_name,
                                is_active |-> TRUE, created_at |-> today])
            /\ history' = [history EXCEPT !.users = @ \cup {user_id_counter}]
    /\ UNCHANGED <<users_passwords, user_stats_db, exercises_db, exercise_sets_db,
                   workouts_db, workout_exercise_sets, workout_plans_db,
                   progress_logs_db, counters, today, last, db>>

\* users_db[user_id_counter] = new_user: the key is the counter as it is now,
\* the object carries the id read in the step before
RegisterStore(r) ==
    /\ requests[r].pc = "store"
    /\ requests' =
         StepRaced(r, "password", Pending(r, "store") \cup Pending(r, "build"))
    /\ users_db' = Put(users_db, user_id_counter,
                       [email |-> requests[r].arg.email,
                        username |-> requests[r].arg.username,
                        full_name |-> requests[r].arg.full_name,
                        is_active |-> TRUE, created_at |-> today])
    /\ history' = [history EXCEPT !.users = @ \cup {user_id_counter}]
    /\ UNCHANGED <<users_passwords, user_stats_db, exercises_db, exercise_sets_db,
                   workouts_db, workout_exercise_sets, workout_plans_db,
                   progress_logs_db, counters, today, last, db>>

\* users_passwords[user.username] = get_password_hash(user.password)
RegisterPassword(r) ==
    /\ requests[r].pc = "password"
    /\ requests' = Step(r, "stats", [ok |-> FALSE])
    /\ users_passwords' = Put(users_passwords, requests[r].arg.username,
                              get_password_hash(requests[r].arg.password))
    /\ history' = [history EXCEPT !.password_owner =
                       Put(@, requests[r].arg.username, requests[r].id)]
    /\ UNCHANGED <<users_db, user_stats_db, exercises_db, exercise_sets_db,
                   workouts_db, workout_exercise_sets, workout_plans_db,
                   progress_logs_db, counters, today, last, db>>

\* user_stats_db[user_id_counter] = UserStats(...)
RegisterStats(r) ==
    /\ requests[r].pc = "stats"
    /\ requests' = Step(r, "count", [ok |-> FALSE])
    /\ user_stats_db' = Put(user_stats_db, user_id_counter, FreshUserStats)
    /\ UNCHANGED <<users_db, users_passwords, exercises_db, exercise_sets_db,
                   workouts_db, workout_exercise_sets, workout_plans_db,
                   progress_logs_db, counters, today, last, history, db>>

\* user_id_counter += 1; return new_user
RegisterCount(r) ==
    /\ requests[r].pc = "count"
    /\ requests' = Step(r, "done", [ok |-> TRUE])
    /\ user_id_counter' = NextCounter(user_id_counter)
    /\ last' = Call("createUser", TRUE, requests[r].id, requests[r].arg, None)
    /\ UNCHANGED <<users_db, users_passwords, user_stats_db, exercises_db,
                   exercise_sets_db, workouts_db, workout_exercise_sets,
                   workout_plans_db, progress_logs_db, workout_id_counter,
                   exercise_id_counter, exercise_set_id_counter,
                   workout_plan_id_counter, progress_log_id_counter,
                   today, history, db>>

\* POST /workouts/ is picked up, with a workout that carries no exercise sets
BeginCreateWorkout(r, workout, user_id) ==
    /\ requests[r].pc = "idle"
    /\ ~ListGiven(workout.exercise_sets)
    /\ requests' = Step(r, "w_build",
                        [op |-> "createWorkout",
                         arg |-> [workout |-> workout, user_id |-> user_id]])
    /\ UNCHANGED <<store, today, last, history, db>>

\* new_workout = Workout(id=workout_id_counter, ...)
WorkoutBuild(r) ==
    /\ requests[r].pc = "w_build"
    /\ requests' = Step(r, "w_store", [id |-> workout_id_counter])
    /\ UNCHANGED <<store, today, last, history, db>>

\* workouts_db[workout_id_counter] = new_workout
WorkoutStore(r) ==
    /\ requests[r].pc = "w_store"
    /\ requests' = StepRaced(r, "w_list", Pending(r, "w_store"))
    /\ workouts_db' = Put(workouts_db, workout_id_counter,
                          WorkoutRecord(requests[r].arg.workout, today,
                                        requests[r].arg.user_id))
    /\ history' = [history EXCEPT !.workouts = @ \cup {workout_id_counter}]
    /\ UNCHANGED <<users_db, users_passwords, user_stats_db, exercises_db,
                   exercise_sets_db, workout_exercise_sets, workout_plans_db,
                   progress_logs_db, counters, today, last, db>>

\* workout_exercise_sets[workout_id_counter] = []
WorkoutList(r) ==
    /\ requests[r].pc = "w_list"
    /\ requests' = Step(r, "w_stats", [ok |-> FALSE])
    /\ workout_exercise_sets' = Put(workout_exercise_sets, workout_id_counter, <<>>)
    /\ UNCHANGED <<users_db, users_passwords, user_stats_db, exercises_db,
                   exercise_sets_db, workouts_db, workout_plans_db,
                   progress_logs_db, counters, today, last, history, db>>

\* if user_id and user_id in user_stats_db: the update of the owner's stats
WorkoutStats(r) ==
    /\ requests[r].pc = "w_stats"
    /\ requests' = Step(r, "w_count", [ok |-> FALSE])
    /\ user_stats_db' =
         IF StatsOwner(requests[r].arg.user_id)
         THEN [user_stats_db EXCEPT ![requests[r].arg.user_id] =
                   StatsAfterWorkout(@, requests[r].arg.workout.duration_minutes)]
         ELSE user_stats_db
    /\ UNCHANGED <<users_db, users_passwords, exercises_db, exercise_sets_db,
                   workouts_db, workout_exercise_sets, workout_plans_db,
                   progress_logs_db, counters, today, last, history, db>>

\* workout_id_counter += 1; return WorkoutDetail(...)
WorkoutCount(r) ==
    /\ requests[r].pc = "w_count"
    /\ requests' = Step(r, "done", [ok |-> TRUE])
    /\ workout_id_counter' = NextCounter(workout_id_counter)
    /\ last' = Call("createWorkout", TRUE, requests[r].id, requests[r].arg, <<>>)
    /\ UNCHANGED <<users_db, users_passwords, user_stats_db, exercises_db,
                   exercise_sets_db, workouts_db, workout_exercise_sets,
                   workout_plans_db, progress_logs_db, user_id_counter,
                   exercise_id_counter, exercise_set_id_counter,
                   workout_plan_id_counter, progress_log_id_counter,
                   today, history, db>>

\* registrations in flight: a new user, and a username that is taken
RaceUsers ==
    {OneUser,
     [username |-> "johndoe", email |-> "j@x.com", full_name |-> "John",
      password |-> "hunter22"]}

RaceWorkout ==
    [title |-> "Pushups", category |-> "strength", duration_minutes |-> 20,
     exercise_sets |-> [given |-> FALSE, items |-> <<>>]]

NextRaces ==
    \/ \E r \in Requests, user \in RaceUsers : BeginRegister(r, user)
    \/ \E r \in Requests : RegisterRoute(r)
    \/ \E r \in Requests : RegisterCheck(r)
    \/ \E r \in Requests : RegisterBuild(r)
    \/ \E r \in Requests : RegisterStore(r)
    \/ \E r \in Requests : RegisterPassword(r)
    \/ \E r \in Requests : RegisterStats(r)
    \/ \E r \in Requests : RegisterCount(r)
    \/ \E r \in Requests : BeginCreateWorkout(r, RaceWorkout, 1)
    \/ \E r \in Requests : WorkoutBuild(r)
    \/ \E r \in Requests : WorkoutStore(r)
    \/ \E r \in Requests : WorkoutList(r)
    \/ \E r \in Requests : WorkoutStats(r)
    \/ \E r \in Requests : WorkoutCount(r)

SpecRaces == Init /\ [][NextRaces]_vars

\* two stored users carry the same username
DuplicatedUsername ==
    \E i, j \in DOMAIN users_db :
        i # j /\ users_db[i].username = users_db[j].username

\* two requests of the same operation were handed the same id
SharedId ==
    \E q1, q2 \in Requests :
        /\ q1 # q2
        /\ requests[q1].op = requests[q2].op
        /\ requests[q1].id # None
        /\ requests[q1].id = requests[q2].id

\* both requests are answered, are calls of the same operation (for
\* createUser: with the same username), and each had done its checks and
\* reads before the other wrote
RacedPair(r1, r2) ==
    /\ r1 # r2
    /\ requests[r1].pc = "done"
    /\ requests[r2].pc = "done"
    /\ r2 \in requests[r1].raced
    /\ requests[r1].op = requests[r2].op
    /\ requests[r1].op = "createUser" =>
          requests[r1].arg.username = requests[r2].arg.username

-----------------------------------------------------------------------------
(* Ownership at the HTTP layer: the seed users call the routes of workouts
   and plans on records of user 1, on workouts of no user and on ids that
   are not stored *)

OwnedWorkout ==
    [title |-> "Pushups", category |-> "strength", duration_minutes |-> 20,
     exercise_sets |-> [given |-> FALSE, items |-> <<>>]]

\* Chest Day (of user 1), the workouts stored without owner, an absent id
OwnedWorkoutIds == {2} \cup (4..(MaxWorkoutId + 1))

\* the Beginner Strength Program (of user 1) and an absent id
OwnedPlanIds == {1, AbsentId}

NextOwners ==
    \* a workout stored without owner (create_workout's default user_id=None)
    \/ create_workout(OwnedWorkout, None)
    \/ \E id \in OwnedWorkoutIds, caller \in CallerIds :
           api_update_workout(id, [OwnedWorkout EXCEPT !.duration_minutes = 60],
                              caller)
    \/ \E id \in OwnedWorkoutIds, caller \in CallerIds :
           api_delete_workout(id, caller)
    \/ \E id \in OwnedPlanIds, caller \in CallerIds :
           api_update_workout_plan(id, OtherPlan, caller)
    \/ \E id \in OwnedPlanIds, caller \in CallerIds :
           api_delete_workout_plan(id, caller)
    \/ \E id \in OwnedPlanIds, workout_id \in {2, AbsentId}, caller \in CallerIds :
           api_add_workout_to_plan(id, workout_id, caller)
    \/ \E id \in OwnedPlanIds, workout_id \in {2, AbsentId}, caller \in CallerIds :
           api_remove_workout_from_plan(id, workout_id, caller)

SpecOwners == Init /\ [][NextOwners]_vars

\* what a step of a route may do, given whether the record is stored and who
\* owns it: not-found without a write when it is missing, forbidden without
\* a write when the owner is not the caller; the owner's own call fails only
\* when the workout to add is not stored
OwnerChecked(step, stored, owner, caller) ==
    step =>
        IF ~stored
        THEN ~last'.ok /\ last'.ret = NotFound /\ store' = store
        ELSE IF owner # caller
        THEN ~last'.ok /\ last'.ret = Forbidden /\ store' = store
        ELSE ~last'.ok =>
                 last'.op = "apiAddWorkoutToPlan" /\ last'.ret = NotFound

\* C27: through the routes, a workout or plan is updated, deleted or has
\* workouts added or removed only by the caller whose id is the record's
\* owner; every other caller, and every caller of a workout whose owner is
\* None, is answered forbidden and the store stays as it was; a record that
\* is not stored is answered not-found whoever calls.
C27_OnlyOwnerWrites ==
    [][\A caller \in CallerIds :
         /\ \A id \in OwnedWorkoutIds :
              LET stored == id \in DOMAIN workouts_db
                  owner == workouts_db[id].user_id
              IN /\ OwnerChecked(
                       api_update_workout(
                           id, [OwnedWorkout EXCEPT !.duration_minutes = 60],
                           caller),
                       stored, owner, caller)
                 /\ OwnerChecked(api_delete_workout(id, caller),
                                 stored, owner, caller)
         /\ \A id \in OwnedPlanIds :
              LET stored == id \in DOMAIN workout_plans_db
                  owner == workout_plans_db[id].created_by
              IN /\ OwnerChecked(api_update_workout_plan(id, OtherPlan, caller),
                                 stored, owner, caller)
                 /\ OwnerChecked(api_delete_workout_plan(id, caller),
                                 stored, owner, caller)
                 /\ \A workout_id \in {2, AbsentId} :
                      /\ OwnerChecked(
                             api_add_workout_to_plan(id, workout_id, caller),
                             stored, owner, caller)
                      /\ OwnerChecked(
                             api_remove_workout_from_plan(id, workout_id, caller),
                             stored, owner, caller)]_vars

\* an update of a stored workout without owner was answered forbidden
C27_Witness ==
    /\ last.op = "apiUpdateWorkout"
    /\ last.ret = Forbidden
    /\ last.id \in DOMAIN workouts_db
    /\ workouts_db[last.id].user_id = None
    /\ last.arg \in CallerIds

-----------------------------------------------------------------------------
(* The standalone endpoints of main.py: each collection is a list in db, a
   create takes len(list) + 1 as id and appends, a delete pops the first
   record with the id *)

\* the list a create of main.py appends to
CollectionOfMain(op) ==
    IF op = "mainRegisterUser" THEN "users"
    ELSE IF op = "mainCreateWorkout" THEN "workouts"
    ELSE "exercises"

\* user_id = len(db["users"]) + 1 (and the same for every other list)
NextListId(records) == Len(records) + 1

\* the position of the first record with the id, 0 when there is none
FirstWithId(records, id) ==
    IF \E i \in DOMAIN records : records[i].id = id
    THEN CHOOSE i \in DOMAIN records :
             records[i].id = id /\ \A j \in 1..(i - 1) : records[j].id # id
    ELSE 0

\* db[...].pop(i)
Pop(records, i) == SubSeq(records, 1, i - 1) \o SubSeq(records, i + 1, Len(records))

\* POST /users/register
main_register_user(user) ==
    LET user_id == NextListId(db.users)
    IN /\ Len(db.users) < MaxListLen
       /\ db' = [db EXCEPT !.users =
                    Append(@, [id |-> user_id, username |-> user.username,
                               email |-> user.email])]
       /\ last' = Call("mainRegisterUser", TRUE, user_id, user, None)
       /\ UNCHANGED <<store, today, history, requests>>

\* DELETE /users/{user_id}
main_delete_user(user_id) ==
    LET i == FirstWithId(db.users, user_id)
    IN /\ db' = IF i = 0 THEN db ELSE [db EXCEPT !.users = Pop(@, i)]
       /\ last' = Call("mainDeleteUser", i # 0, user_id, None,
                       IF i = 0 THEN NotFound ELSE NoContent)
       /\ UNCHANGED <<store, today, history, requests>>

\* POST /workouts/: a demo user with id 1 is stored first when there is no
\* user at all
main_create_workout(workout) ==
    LET users == IF Len(db.users) = 0
                 THEN <<[id |-> 1, username |-> "demouser",
                         email |-> "demo@example.com"]>>
                 ELSE db.users
        workout_id == NextListId(db.workouts)
    IN /\ Len(db.workouts) < MaxListLen
       /\ db' = [db EXCEPT !.users = users,
                           !.workouts =
                               Append(@, [id |-> workout_id,
                                          title |-> workout.title,
                                          user_id |-> 1])]
       /\ last' = Call("mainCreateWorkout", TRUE, workout_id, workout, None)
       /\ UNCHANGED <<store, today, history, requests>>

\* DELETE /workouts/{workout_id}
main_delete_workout(workout_id) ==
    LET i == FirstWithId(db.workouts, workout_id)
    IN /\ db' = IF i = 0 THEN db ELSE [db EXCEPT !.workouts = Pop(@, i)]
       /\ last' = Call("mainDeleteWorkout", i # 0, workout_id, None,
                       IF i = 0 THEN NotFound ELSE NoContent)
       /\ UNCHANGED <<store, today, history, requests>>

\* POST /exercises/
main_create_exercise(exercise) ==
    LET exercise_id == NextListId(db.exercises)
    IN /\ Len(db.exercises) < MaxListLen
       /\ db' = [db EXCEPT !.exercises =
                    Append(@, [id |-> exercise_id, name |-> exercise.name])]
       /\ last' = Call("mainCreateExercise", TRUE, exercise_id, exercise, None)
       /\ UNCHANGED <<store, today, history, requests>>

\* DELETE /exercises/{exercise_id}
main_delete_exercise(exercise_id) ==
    LET i == FirstWithId(db.exercises, exercise_id)
    IN /\ db' = IF i = 0 THEN db ELSE [db EXCEPT !.exercises = Pop(@, i)]
       /\ last' = Call("mainDeleteExercise", i # 0, exercise_id, None,
                       IF i = 0 THEN NotFound ELSE NoContent)
       /\ UNCHANGED <<store, today, history, requests>>

\* ids addressed by the deletes: every id a list can hold and one more
MainIds == 1..(MaxListLen + 1)

NextMain ==
    \/ main_register_user(OneUser)
    \/ \E id \in MainIds : main_delete_user(id)
    \/ main_create_workout(OwnedWorkout)
    \/ \E id \in MainIds : main_delete_workout(id)
    \/ \E exercise \in ExerciseInputs : main_create_exercise(exercise)
    \/ \E id \in MainIds : main_delete_exercise(id)

SpecMain == Init /\ [][NextMain]_vars

\* C29: in each list of the standalone store no two records share an id, and
\* a create never hands out an id that a record of the list already has.
C29_MainIdsUnique ==
    /\ \A c \in DOMAIN db :
          \A i, j \in DOMAIN db[c] : i # j => db[c][i].id # db[c][j].id
    /\ last.op \in {"mainRegisterUser", "mainCreateWorkout", "mainCreateExercise"}
          => Cardinality({i \in DOMAIN db[CollectionOfMain(last.op)] :
                            db[CollectionOfMain(last.op)][i].id = last.id}) = 1

-----------------------------------------------------------------------------
(* Workout details: workouts are created with none, one or several sets,
   updated with and without sets and read back, next to deletes that make
   ids absent *)

\* the workouts read: a seed workout, the created workouts, an absent id
DetailIds == {2} \cup (4..(MaxWorkoutId + 1))

NextDetails ==
    \/ \E workout \in WorkoutInputs : create_workout(workout, None)
    \/ \E id \in DetailIds : get_workout_detail(id)
    \/ \E id \in DetailIds, workout \in WorkoutInputs : update_workout(id, workout)
    \/ \E id \in DetailIds : delete_workout(id)

SpecDetails == Init /\ [][NextDetails]_vars

\* C30: createWorkout returns one set per input set, in input order, with
\* consecutive ids that start at the counter; getWorkoutDetail of the new id,
\* called next, returns the same sets in the same order; getWorkoutDetail of
\* an id that is not stored returns not-found.
C30_DetailReturnsCreatedSets ==
    [][/\ last'.op = "createWorkout" =>
            LET items == IF last'.arg.workout.exercise_sets.given
                         THEN last'.arg.workout.exercise_sets.items ELSE <<>>
            IN /\ last'.ok
               /\ last'.id \in DOMAIN workouts_db'
               /\ Len(last'.ret) = Len(items)
               /\ \A k \in 1..Len(items) :
                     last'.ret[k] =
                         [id |-> exercise_set_id_counter + k - 1,
                          exercise_id |-> items[k].exercise_id,
                          reps |-> items[k].reps]
       /\ (/\ last.op = "createWorkout"
           /\ last'.op = "getWorkoutDetail"
           /\ last'.id = last.id)
             => last'.ok /\ last'.ret = last.ret
       /\ (last'.op = "getWorkoutDetail" /\ last'.id \notin DOMAIN workouts_db)
             => ~last'.ok /\ last'.ret = None
       /\ (last'.op = "getWorkoutDetail" /\ last'.id \in DOMAIN workouts_db)
             => last'.ok]_vars

\* the workout created last was read back with two sets of different exercises
C30_Witness ==
    /\ last.op = "getWorkoutDetail"
    /\ last.ok
    /\ last.id = workout_id_counter - 1
    /\ last.id \notin DOMAIN SeedWorkouts
    /\ Len(last.ret) = 2
    /\ last.ret[1].exercise_id # last.ret[2].exercise_id
    /\ last.ret[2].id = last.ret[1].id + 1

-----------------------------------------------------------------------------
(* Users: uniqueness and failed registration *)

\* C1: no two stored Users share a username, and no two share an email.
C1_UsernameAndEmailUnique ==
    \A i, j \in DOMAIN users_db :
        i # j => /\ users_db[i].username # users_db[j].username
                 /\ users_db[i].email # users_db[j].email

\* C16: right after a successful createUser the new User and a UserStats
\* record are both stored under the assigned id, the record holding
\* total_workouts 0, total_workout_minutes 0, streak_days 0 and no
\* last_workout_date, weight or body fat; and in every state the ids that
\* have a UserStats record are exactly the ids of the stored Users.
C16_StatsLiveWithTheirUser ==
    /\ DOMAIN user_stats_db = DOMAIN users_db
    /\ (last.op = "createUser" /\ last.ok) =>
          /\ last.id \in DOMAIN users_db
          /\ users_db[last.id].username = last.arg.username
          /\ last.id \in DOMAIN user_stats_db
          /\ user_stats_db[last.id].total_workouts = 0
          /\ user_stats_db[last.id].total_workout_minutes = 0
          /\ user_stats_db[last.id].streak_days = 0
          /\ user_stats_db[last.id].last_workout_date = None
          /\ user_stats_db[last.id].weight = None
          /\ user_stats_db[last.id].body_fat_percentage = None

\* a user registered after a seed user and its stats had been deleted
C16_Witness ==
    /\ last.op = "createUser"
    /\ last.ok
    /\ 1 \notin DOMAIN users_db
    /\ 1 \notin DOMAIN user_stats_db
    /\ last.id \in DOMAIN user_stats_db

\* C17: after a successful deleteUser(id), whatever createUser and updateUser
\* calls came before, the User and its UserStats are gone and no stored
\* password hash is the one stored for that user at its creation.
C17_DeleteUserRemovesPasswordHash ==
    [][(last'.op = "deleteUser" /\ last'.ok) =>
          /\ last'.id \notin DOMAIN users_db'
          /\ last'.id \notin DOMAIN user_stats_db'
          /\ \A k \in DOMAIN users_passwords' :
                history'.password_owner[k] # last'.id]_vars

\* C28: in every state each stored User has a password hash stored under its
\* current username, each stored hash is keyed by the username of a stored
\* User, and each stored seed user is authenticated under its current
\* username with the password it was stored with.
C28_EveryUserKeepsItsHash ==
    /\ \A i \in DOMAIN users_db : users_db[i].username \in DOMAIN users_passwords
    /\ \A k \in DOMAIN users_passwords :
          \E i \in DOMAIN users_db : users_db[i].username = k
    /\ \A i \in DOMAIN users_db \cap DOMAIN SeedUsers :
          authenticate_user(users_db[i].username, "secret") = i

\* C19: updateUser on a stored user sets exactly the fields the patch
\* supplies and leaves the user's other fields, every other user and the
\* UserStats collection as they were; on an id that is not stored it reports
\* not-found and changes nothing.
C19_UpdateUserSetsOnlyPatchedFields ==
    [][last'.op = "updateUser" =>
          IF last'.id \in DOMAIN users_db
          THEN /\ last'.ok
               /\ DOMAIN users_db' = DOMAIN users_db
               /\ \A f \in DOMAIN users_db[last'.id] :
                      users_db'[last'.id][f] =
                          IF f \in DOMAIN last'.arg THEN last'.arg[f]
                          ELSE users_db[last'.id][f]
               /\ \A u \in DOMAIN users_db \ {last'.id} :
                      users_db'[u] = users_db[u]
               /\ user_stats_db' = user_stats_db
          ELSE ~last'.ok /\ store' = store]_vars

\* an update set the email and full name of a registered user and kept its
\* username
C19_Witness ==
    /\ last.op = "updateUser"
    /\ last.ok
    /\ DOMAIN last.arg = {"email", "full_name"}
    /\ last.id \notin DOMAIN SeedUsers
    /\ users_db[last.id].email = last.arg.email
    /\ users_db[last.id].username = "alex"

\* C2: createUser with a username or an email some stored User holds reports
\* failure and leaves every collection and every counter as it was.
C2_DuplicateCreateUserChangesNothing ==
    [][(/\ last'.op = "createUser"
        /\ \E i \in DOMAIN users_db :
              \/ users_db[i].username = last'.arg.username
              \/ users_db[i].email = last'.arg.email)
          => (~last'.ok /\ store' = store)]_vars

\* a createUser was refused for its email alone (the username was free)
C2_Witness ==
    /\ last.op = "createUser"
    /\ ~last.ok
    /\ \A i \in DOMAIN users_db : users_db[i].username # last.arg.username
    /\ \E i \in DOMAIN users_db : users_db[i].email = last.arg.email

-----------------------------------------------------------------------------
(* Workouts, their exercise sets and the exercises they name *)

\* C4: deleteExercise on a stored exercise fails and keeps it whenever some
\* stored ExerciseSet names it, and otherwise succeeds and removes it; and no
\* stored ExerciseSet names an exercise deleted after the set was created
\* (a set created before a deletion has an id below the set counter recorded
\* at that deletion).
C4_DeleteExerciseGuardsReferences ==
    [][/\ (last'.op = "deleteExercise" /\ last'.id \in DOMAIN exercises_db) =>
            IF \E s \in DOMAIN exercise_sets_db :
                   exercise_sets_db[s].exercise_id = last'.id
            THEN ~last'.ok /\ exercises_db' = exercises_db
            ELSE last'.ok /\ last'.id \notin DOMAIN exercises_db'
       /\ \A d \in history'.exercise_deletions :
            \A s \in DOMAIN exercise_sets_db' :
                s < d[2] => exercise_sets_db'[s].exercise_id # d[1]]_vars

\* a delete was refused for a stored exercise that only a set materialized
\* by a workout call names
C4_Witness ==
    /\ last.op = "deleteExercise"
    /\ ~last.ok
    /\ last.id \in DOMAIN exercises_db
    /\ \E s \in DOMAIN exercise_sets_db : exercise_sets_db[s].exercise_id = last.id
    /\ \A s \in DOMAIN exercise_sets_db :
          exercise_sets_db[s].exercise_id = last.id => s \notin DOMAIN SeedExerciseSets

\* C5: every ExerciseSet a createWorkout or updateWorkout call materializes
\* names an exercise that is stored when the set is created.
C5_MaterializedSetsNameStoredExercises ==
    \A k \in 1..Len(AssignedSetIds(last)) :
        last.ret[k].exercise_id \in DOMAIN exercises_db

\* C6: after updateWorkout with a non-empty list of n sets, no id of the
\* workout's previous list is stored, and the workout's list is n ids never
\* stored before, increasing, the k-th holding the k-th input set.
C6_UpdateWorkoutReplacesSets ==
    [][(last'.op = "updateWorkout" /\ last'.ok
            /\ ListGiven(last'.arg.exercise_sets)) =>
          LET items == last'.arg.exercise_sets.items
              new == workout_exercise_sets'[last'.id]
          IN /\ \A e \in Range(ListOf(workout_exercise_sets, last'.id)) :
                    e \notin DOMAIN exercise_sets_db'
             /\ Len(new) = Len(items)
             /\ \A k \in 1..Len(new) :
                    /\ new[k] \notin history.exercise_sets
                    /\ new[k] \in DOMAIN exercise_sets_db'
                    /\ exercise_sets_db'[new[k]] = items[k]
             /\ \A k \in 1..(Len(new) - 1) : new[k] < new[k + 1]]_vars

\* an update replaced a workout's sets by two sets naming different exercises
C6_Witness ==
    /\ last.op = "updateWorkout"
    /\ last.ok
    /\ ListGiven(last.arg.exercise_sets)
    /\ Len(last.arg.exercise_sets.items) = 2
    /\ last.arg.exercise_sets.items[1] # last.arg.exercise_sets.items[2]
    /\ Len(workout_exercise_sets[last.id]) = 2

\* C7: after deleteWorkout on a stored workout, the workout, its list entry
\* and every set of its list are gone, and every other workout keeps its list
\* and the sets in it.
C7_DeleteWorkoutCascades ==
    [][(last'.op = "deleteWorkout" /\ last'.id \in DOMAIN workouts_db) =>
          /\ last'.ok
          /\ last'.id \notin DOMAIN workouts_db'
          /\ last'.id \notin DOMAIN workout_exercise_sets'
          /\ \A e \in Range(ListOf(workout_exercise_sets, last'.id)) :
                e \notin DOMAIN exercise_sets_db'
          /\ \A w \in DOMAIN workout_exercise_sets \ {last'.id} :
                /\ w \in DOMAIN workout_exercise_sets'
                /\ workout_exercise_sets'[w] = workout_exercise_sets[w]
                /\ \A e \in Range(workout_exercise_sets[w]) :
                      e \in DOMAIN exercise_sets_db =>
                          /\ e \in DOMAIN exercise_sets_db'
                          /\ exercise_sets_db'[e] = exercise_sets_db[e]]_vars

\* a workout owning two sets was deleted while another workout owns sets
C7_Witness ==
    /\ last.op = "deleteWorkout"
    /\ last.ok
    /\ Cardinality(history.exercise_sets \ DOMAIN exercise_sets_db) >= 2
    /\ \E w \in DOMAIN workout_exercise_sets : Len(workout_exercise_sets[w]) >= 1

\* C8: every id in every workout's exercise-set list is stored in the
\* ExerciseSet collection, and every workout that has a list is stored.
C8_ListsNameStoredSets ==
    \A w \in DOMAIN workout_exercise_sets :
        /\ w \in DOMAIN workouts_db
        /\ \A e \in Range(workout_exercise_sets[w]) : e \in DOMAIN exercise_sets_db

\* a workout was deleted and another workout, created since, has two sets
C8_Witness ==
    /\ history.workouts \ DOMAIN workouts_db # {}
    /\ \E w \in DOMAIN workout_exercise_sets \ DOMAIN SeedWorkouts :
          Len(workout_exercise_sets[w]) = 2

\* the number of places in workout lists that hold exercise-set id e
Owners(e) ==
    Cardinality({<<w, k>> \in (DOMAIN workout_exercise_sets) \X (1..MaxSets) :
                    k <= Len(workout_exercise_sets[w])
                    /\ workout_exercise_sets[w][k] = e})

\* C9: every stored ExerciseSet is in the list of exactly one workout, once.
C9_EverySetHasOneOwner ==
    \A e \in DOMAIN exercise_sets_db : Owners(e) = 1

\* C26: updateWorkout on a stored workout with no exercise sets in the input
\* (the field omitted or an empty list) replaces title, category and duration,
\* keeps the id, created_at and the owner, and leaves the workout's
\* exercise-set list, every other list and the ExerciseSet collection as
\* they were.
C26_UpdateWithoutSetsKeepsList ==
    [][(/\ last'.op = "updateWorkout"
        /\ last'.ok
        /\ ~(last'.arg.exercise_sets.given
             /\ Len(last'.arg.exercise_sets.items) > 0))
       => /\ DOMAIN workouts_db' = DOMAIN workouts_db
          /\ \A w \in DOMAIN workouts_db :
                workouts_db'[w] =
                    IF w = last'.id
                    THEN [title |-> last'.arg.title,
                          category |-> last'.arg.category,
                          duration_minutes |-> last'.arg.duration_minutes,
                          created_at |-> workouts_db[w].created_at,
                          user_id |-> workouts_db[w].user_id]
                    ELSE workouts_db[w]
          /\ workout_exercise_sets' = workout_exercise_sets
          /\ exercise_sets_db' = exercise_sets_db
          /\ exercise_set_id_counter' = exercise_set_id_counter]_vars

\* Chest Day was updated with an empty list of sets: it carries the new title
\* and still lists seed set 1
C26_Witness ==
    /\ last.op = "updateWorkout"
    /\ last.ok
    /\ last.id = 2
    /\ last.arg.exercise_sets = [given |-> TRUE, items |-> <<>>]
    /\ workouts_db[2].title = last.arg.title
    /\ workouts_db[2].user_id = SeedWorkouts[2].user_id
    /\ workout_exercise_sets[2] = SeedWorkoutExerciseSets[2]
    /\ 1 \in DOMAIN exercise_sets_db

====
